---- MODULE Spec2Model ----
(***************************************************************************)
(* Writing Assistant Pro: the activation pipeline.                         *)
(*                                                                         *)
(*   - WindowManager (src/core/managers/window.py): the debounced toggle,  *)
(*     show_window and hide_window, run by hotkey-listener threads, by the *)
(*     UI thread (close event, Hide button) and next to the systray menu.  *)
(*                                                                         *)
(*   - the first WindowManager (src/core/window_manager.py, pywebview):    *)
(*     show_window / hide_window and the close-handler registration.       *)
(*   - HotkeyManager (src/core/managers/hotkey.py) over the keyboard       *)
(*     library's table of hotkey bindings.                                 *)
(*                                                                         *)
(* Time is counted in ticks of the monotonic clock.                        *)
(***************************************************************************)
EXTENDS Integers, Sequences, FiniteSets, TLC

\* ------------------------------------------------------------------ bounds
MaxClock == 6
MaxFires == 3
MaxCalls == 5
MaxCaptures == 2
MaxFailures == 2
MaxOps == 4
MaxFiles == 1
MaxSessions == 2
MaxDialogs == 2

\* config.MIN_TRIGGER_INTERVAL, in ticks
MIN_TRIGGER_INTERVAL == 3

\* Threads that may run toggle_window (the keyboard library's callbacks).
HotkeyThreads == {1, 2}
\* The UI thread: on_window_event("close") and the Hide button call hide_window.
UiThread == 3
\* The systray (pystray) thread: _on_settings_click.
SystrayThread == 4
WinThreads == HotkeyThreads \cup {UiThread}
AllThreads == WinThreads \cup {SystrayThread}

VARIABLES
    \* ---- WindowManager (managers/window.py)
    clock,                \* time.monotonic(), in ticks
    last_trigger_time,    \* self.last_trigger_time
    trigger_lock,         \* self.trigger_lock: 0 free, else the holding thread
    window_visible,       \* self.window_visible
    page_window_visible,  \* self.page.window.visible
    page,                 \* self.page is set (TRUE) or None (FALSE)
    on_show,              \* self.on_show is set
    on_hide,              \* self.on_hide is set
    pc,                   \* position of each thread
    toggle_log,           \* the monotonic timestamps of the executed toggles
    events,               \* notifications delivered during a thread's current call
    pre_show,             \* the on_show callback of the current call: none/running/done
    outcome,              \* how a thread's call went so far
    op_failed,            \* show_window/hide_window of the current call caught an exception
    fires                 \* number of calls started (bounded by MaxFires)

winVars == <<clock, last_trigger_time, trigger_lock, window_visible,
             page_window_visible, page, on_show, on_hide, pc, toggle_log,
             events, pre_show, outcome, op_failed, fires>>

VARIABLES
    \* ---- the pywebview WindowManager (window_manager.py)
    webview_windows,      \* webview.windows is non-empty
    window_ref,           \* self.window_ref is set
    window_initialized,   \* self.window_initialized
    closing_handlers,     \* handlers registered on window.events.closing
    wv_window_visible,    \* self.window_visible
    wv_shown,             \* the native window is shown
    wv_pc,                \* position of the caller and of the close worker
    wv_calls,             \* show/hide calls started (bounded by MaxCalls)
    wv_shows              \* show_window calls that showed the window

wvVars == <<webview_windows, window_ref, window_initialized, closing_handlers,
            wv_window_visible, wv_shown, wv_pc, wv_calls, wv_shows>>

VARIABLES
    \* ---- HotkeyManager (managers/hotkey.py) and the keyboard library
    HOTKEY_COMBINATION,   \* config.HOTKEY_COMBINATION ("" when disabled)
    kb_hotkeys,           \* the keyboard library's hotkey bindings, oldest first
    hotkey_hook,          \* self._hotkey_hook ("" for None)
    toggle_callback,      \* self._toggle_callback is set
    hk_pc,                \* position of each caller
    hk_hotkey,            \* register's local variable hotkey
    hk_ret,               \* the value the caller's last call returned
    kb_faulty             \* unhook_all and remove_hotkey may raise as well

hkVars == <<HOTKEY_COMBINATION, kb_hotkeys, hotkey_hook, toggle_callback,
            hk_pc, hk_hotkey, hk_ret, kb_faulty>>

VARIABLES
    \* ---- InputSourceService (services/input_source.py) and the OS
    platform_system,      \* platform.system()
    os_clipboard,         \* the content of the OS clipboard
    fg_selection,         \* the text selected in the foreground application
    clipboard_backup,     \* get_selection_text's local clipboard_backup
    current_clipboard,    \* its local current_clipboard
    selected_text,        \* its local selected_text, the value it returns
    attempt,              \* its loop variable
    gs_pc,                \* position inside get_selection_text
    gs_calls,             \* calls started (bounded by MaxCaptures)
    gs_failures,          \* OS calls that raised (bounded by MaxFailures)
    os_failed,            \* the OS calls that raised during the current call
    clip_before,          \* the clipboard when the current call was entered
    gs_rounds,            \* the attempts of the current call, one record each
    last_state            \* self._last_state, the InputState detected last

clipVars == <<platform_system, os_clipboard, fg_selection, clipboard_backup,
              current_clipboard, selected_text, attempt, gs_pc, gs_calls,
              gs_failures, os_failed, clip_before, gs_rounds, last_state>>

VARIABLES
    \* ---- PromptBar (ui/components/input/prompt_bar.py)
    attachments,          \* self.attachments
    input_state,          \* self.input_state
    selection_active,     \* self.selection_btn.is_active
    clipboard_active,     \* self.clipboard_btn.is_active
    selection_visible,    \* self.selection_btn.visible
    clipboard_visible,    \* self.clipboard_btn.visible
    text_field_value,     \* self.text_field.value
    pb_last,              \* the last operation performed on the PromptBar
    pb_ops,               \* operations performed (bounded by MaxOps)
    pb_files              \* files picked (bounded by MaxFiles)

pbVars == <<attachments, input_state, selection_active, clipboard_active,
            selection_visible, clipboard_visible, text_field_value, pb_last,
            pb_ops, pb_files>>

VARIABLES
    \* ---- SystrayManager's Quit item (managers/systray.py)
    systray_app,          \* self.app is set and has a hotkey_manager
    systray_icon,         \* self.icon is set
    quit_pc,              \* position inside _on_quit_click
    quit_cleaned,         \* what the handler's hotkey cleanup did
    quit_cleared          \* the bindings that cleanup removed

sysVars == <<systray_app, systray_icon, quit_pc, quit_cleaned, quit_cleared>>

VARIABLES
    \* ---- a stored hotkey shown and stored again (hotkey_capture.py)
    fmt_hotkey,           \* the storage string picked
    fmt_display,          \* format_hotkey_for_display of it
    fmt_storage,          \* format_hotkey_for_storage of that
    fmt_pc                \* which of the two has been applied

fmtVars == <<fmt_hotkey, fmt_display, fmt_storage, fmt_pc>>

VARIABLES
    \* ---- HotkeyCapture (services/hotkey_capture.py) and its dialog
    kb_hooks,             \* the hooks keyboard.hook installed, by handle
    cap_hook,             \* self._hook (0 for None)
    current_keys,         \* self._current_keys
    modifiers,            \* self._modifiers
    main_key,             \* self._main_key
    cap_on_update,        \* self._on_update is set
    is_capturing,         \* self._is_capturing
    cap_ret,              \* the value the last stop_capture returned
    cap_last,             \* the last call made on the capture
    cap_sessions,         \* start_capture calls (bounded by MaxSessions)
    display_text,         \* the dialog's display_text.value
    captured_hotkey,      \* the dialog's captured_hotkey
    dlg_result            \* the HotkeyDialogResult handed to on_result

capVars == <<kb_hooks, cap_hook, current_keys, modifiers, main_key,
             cap_on_update, is_capturing, cap_ret, cap_last, cap_sessions,
             display_text, captured_hotkey, dlg_result>>

VARIABLES
    \* ---- EventBus (core/event_bus.py)
    listeners,            \* self._listeners: event name -> list of callbacks
    bus_last              \* the last call made on the bus and what it invoked

busVars == <<listeners, bus_last>>

VARIABLES
    \* ---- ConfigManager (core/config/manager.py) and its JSON file
    config_file,          \* the file: whether it exists and the object in it
    config,               \* self._config of the running ConfigManager
    cfg_attrs,            \* plain attributes set on it through __setattr__
    cfg_alive,            \* a ConfigManager has been constructed
    cfg_written,          \* the last value set for each key, over all runs
    cfg_last              \* the last call made, with the file it found

cfgVars == <<config_file, config, cfg_attrs, cfg_alive, cfg_written, cfg_last>>

VARIABLES
    \* ---- the pynput HotkeyManager (core/hotkey_manager.py)
    current_pressed_keys,             \* self._current_pressed_keys
    trigger_fired_for_current_press,  \* self.trigger_fired_for_current_press
    hotkey_processing,                \* self.hotkey_processing is held
    lsn_last_trigger_time,            \* self.last_trigger_time
    lsn_clock,                        \* time.time(), in half seconds
    lsn_locked_at,                    \* when the pending release_lock thread started
    lsn_cycle_fires,                  \* triggers since Space or Ctrl was last released
    lsn_last                          \* the last listener event and what it did

lsnVars == <<current_pressed_keys, trigger_fired_for_current_press,
             hotkey_processing, lsn_last_trigger_time, lsn_clock,
             lsn_locked_at, lsn_cycle_fires, lsn_last>>

VARIABLES
    \* ---- the close button of the pywebview window (window_manager.py)
    close_ret,            \* what on_closing returned last ("" before any)
    hide_raised           \* window.hide() raised in the last close's worker

closeVars == <<close_ret, hide_raised>>

VARIABLES
    \* ---- the hotkey dialog as the settings use it (hotkey_dialog.py, app.py)
    dlg_pc,               \* "closed" or "open"
    dlg_hotkey,           \* the dialog's captured_hotkey, as stored ("" for None)
    dlg_action,           \* the action of the last HotkeyDialogResult
    dlg_raised,           \* the last _on_hotkey_dialog_result raised
    setup_pending,        \* delayed_setup threads still in their sleep
    dlg_opens             \* dialogs opened (bounded by MaxDialogs)

dlgVars == <<dlg_pc, dlg_hotkey, dlg_action, dlg_raised, setup_pending,
             dlg_opens>>

VARIABLES
    \* ---- an emit in progress (core/event_bus.py, the loop of emit)
    emit_event,           \* the event being delivered, "" when none is
    emit_index,           \* the list iterator's index
    emit_invoked,         \* the callbacks invoked so far, in order
    emit_start,           \* the event's list when the emit started
    emit_removed          \* the callbacks unsubscribed during the emit

emitVars == <<emit_event, emit_index, emit_invoked, emit_start, emit_removed>>

vars == <<winVars, wvVars, hkVars, clipVars, pbVars, sysVars, fmtVars, capVars, busVars, cfgVars, lsnVars, closeVars, dlgVars, emitVars>>

\* What the actions of one component leave alone.
WinFrame == UNCHANGED <<wvVars, hkVars, clipVars, pbVars, sysVars, fmtVars, capVars, busVars, cfgVars, lsnVars, closeVars, dlgVars, emitVars>>
WvFrame == UNCHANGED <<winVars, hkVars, clipVars, pbVars, sysVars, fmtVars, capVars, busVars, cfgVars, lsnVars, closeVars, dlgVars, emitVars>>
WvCloseFrame == UNCHANGED <<winVars, hkVars, clipVars, pbVars, sysVars, fmtVars, capVars, busVars, cfgVars, lsnVars, dlgVars, emitVars>>
HkFrame == UNCHANGED <<winVars, wvVars, clipVars, pbVars, sysVars, fmtVars, capVars, busVars, cfgVars, lsnVars, closeVars, dlgVars, emitVars>>
ClipFrame == UNCHANGED <<winVars, wvVars, hkVars, pbVars, sysVars, fmtVars, capVars, busVars, cfgVars, lsnVars, closeVars, dlgVars, emitVars>>
PbFrame == UNCHANGED <<winVars, wvVars, hkVars, clipVars, sysVars, fmtVars, capVars, busVars, cfgVars, lsnVars, closeVars, dlgVars, emitVars>>
SysFrame == UNCHANGED <<wvVars, clipVars, pbVars, fmtVars, capVars, busVars, cfgVars, lsnVars, closeVars, dlgVars, emitVars>>
FmtFrame == UNCHANGED <<winVars, wvVars, hkVars, clipVars, pbVars, sysVars, capVars, busVars, cfgVars, lsnVars, closeVars, dlgVars, emitVars>>
CapFrame == UNCHANGED <<winVars, wvVars, hkVars, clipVars, pbVars, sysVars, fmtVars, busVars, cfgVars, lsnVars, closeVars, dlgVars, emitVars>>
BusFrame == UNCHANGED <<winVars, wvVars, hkVars, clipVars, pbVars, sysVars, fmtVars, capVars, cfgVars, lsnVars, closeVars, dlgVars, emitVars>>
EmitFrame == UNCHANGED <<winVars, wvVars, hkVars, clipVars, pbVars, sysVars, fmtVars, capVars, cfgVars, lsnVars, closeVars, dlgVars>>
CfgFrame == UNCHANGED <<winVars, wvVars, hkVars, clipVars, pbVars, sysVars, fmtVars, capVars, busVars, lsnVars, closeVars, dlgVars, emitVars>>
LsnFrame == UNCHANGED <<winVars, wvVars, hkVars, clipVars, pbVars, sysVars, fmtVars, capVars, busVars, cfgVars, closeVars, dlgVars, emitVars>>
DlgFrame == UNCHANGED <<winVars, wvVars, clipVars, pbVars, sysVars, fmtVars, busVars, cfgVars, closeVars, lsnVars, emitVars>>

\* ------------------------------------------------------------ WindowManager

\* __init__: last_trigger_time = 0.0, unlocked, window_visible = False.
\* The page and the callbacks are constructor arguments.
WindowManagerInit ==
    /\ clock = 0
    /\ last_trigger_time = 0
    /\ trigger_lock = 0
    /\ window_visible = FALSE
    /\ page_window_visible = FALSE
    /\ page \in BOOLEAN
    /\ on_show \in BOOLEAN
    /\ on_hide \in BOOLEAN
    /\ pc = [t \in WinThreads |-> "idle"]
    /\ toggle_log = <<>>
    /\ events = [t \in AllThreads |-> <<>>]
    /\ pre_show = [t \in WinThreads |-> "none"]
    /\ outcome = [t \in WinThreads |-> "none"]
    /\ op_failed = [t \in WinThreads |-> FALSE]
    /\ fires = 0

\* The monotonic clock advances at any moment.
Tick ==
    /\ clock < MaxClock
    /\ clock' = clock + 1
    /\ UNCHANGED <<last_trigger_time, trigger_lock, window_visible,
                   page_window_visible, page, on_show, on_hide, pc, toggle_log,
                   events, pre_show, outcome, op_failed, fires>>
    /\ WinFrame

\* An acquire that succeeds although the lock is held.
TryAcquireAlways(lock) == TRUE

\* trigger_lock.acquire(blocking=False)
TryAcquire(lock) == lock = 0

\* A debounce window one tick too short.
DebounceRejectsShort(now, last) == now - last < MIN_TRIGGER_INTERVAL - 1

\* time_since_last < MIN_TRIGGER_INTERVAL
DebounceRejects(now, last) == now - last < MIN_TRIGGER_INTERVAL

\* A rejection that restarts the debounce window.
AfterRejectedExtends(now, last) == now

\* last_trigger_time after a fire the debounce check rejected: the return
\* of line 55 comes before the assignment of line 57.
AfterRejected(now, last) == last

\* Where a call goes when show_window / hide_window returns: toggle_window
\* continues to its finally clause, a direct caller is done.
ReturnPc(t) == IF t \in HotkeyThreads THEN "release" ELSE "idle"

\* A debounce rejection that returns without running the finally clause.
DebounceExitNoFinally == "idle"

\* The debounce rejection returns from inside try: the finally clause runs.
DebounceExit == "release"

\* An exception in the body of toggle_window: except, then finally.
ExceptExit == "release"

StartCall(t) ==
    /\ fires < MaxFires
    /\ fires' = fires + 1
    /\ events' = [events EXCEPT ![t] = <<>>]
    /\ pre_show' = [pre_show EXCEPT ![t] = "none"]
    /\ op_failed' = [op_failed EXCEPT ![t] = FALSE]

\* toggle_window, lock free: the call enters the try block.
toggle_window_acquire(t) ==
    /\ t \in HotkeyThreads
    /\ pc[t] = "idle"
    /\ TryAcquire(trigger_lock)
    /\ StartCall(t)
    /\ trigger_lock' = t
    /\ pc' = [pc EXCEPT ![t] = "check"]
    /\ outcome' = [outcome EXCEPT ![t] = "processing"]
    /\ UNCHANGED <<clock, last_trigger_time, window_visible, page_window_visible,
                   page, on_show, on_hide, toggle_log>>
    /\ WinFrame

\* toggle_window, lock held: "Hotkey already processing, ignoring"; return.
toggle_window_dropped(t) ==
    /\ t \in HotkeyThreads
    /\ pc[t] = "idle"
    /\ ~TryAcquire(trigger_lock)
    /\ StartCall(t)
    /\ outcome' = [outcome EXCEPT ![t] = "dropped"]
    /\ UNCHANGED <<clock, last_trigger_time, trigger_lock, window_visible,
                   page_window_visible, page, on_show, on_hide, pc, toggle_log>>
    /\ WinFrame

\* The debounce check and the show/hide decision.
toggle_window_check(t) ==
    /\ pc[t] = "check"
    /\ \/ /\ DebounceRejects(clock, last_trigger_time)
          /\ pc' = [pc EXCEPT ![t] = DebounceExit]
          /\ outcome' = [outcome EXCEPT ![t] = "debounced"]
          /\ last_trigger_time' = AfterRejected(clock, last_trigger_time)
          /\ UNCHANGED toggle_log
       \/ /\ ~DebounceRejects(clock, last_trigger_time)
          /\ last_trigger_time' = clock
          /\ toggle_log' = Append(toggle_log, clock)
          /\ pc' = [pc EXCEPT ![t] =
                      IF window_visible THEN "hide_begin" ELSE "show_begin"]
          /\ outcome' = [outcome EXCEPT ![t] =
                      IF window_visible THEN "hide" ELSE "show"]
    /\ UNCHANGED <<clock, trigger_lock, window_visible, page_window_visible,
                   page, on_show, on_hide, events, pre_show, op_failed, fires>>
    /\ WinFrame

\* The try block raises before the decision (reading the configuration).
toggle_window_raise(t) ==
    /\ pc[t] = "check"
    /\ pc' = [pc EXCEPT ![t] = ExceptExit]
    /\ outcome' = [outcome EXCEPT ![t] = "error"]
    /\ UNCHANGED <<clock, last_trigger_time, trigger_lock, window_visible,
                   page_window_visible, page, on_show, on_hide, toggle_log,
                   events, pre_show, op_failed, fires>>
    /\ WinFrame

\* finally: self.trigger_lock.release()
toggle_window_release(t) ==
    /\ pc[t] = "release"
    /\ trigger_lock' = 0
    /\ pc' = [pc EXCEPT ![t] = "idle"]
    /\ UNCHANGED <<clock, last_trigger_time, window_visible, page_window_visible,
                   page, on_show, on_hide, toggle_log, events, pre_show,
                   outcome, op_failed, fires>>
    /\ WinFrame

\* A show_window that makes the window visible without calling on_show first.
ShowFirstStepNoCallback(has_cb) == "set_visible"

\* show_window: the first step after "if self.page".
ShowFirstStep(has_cb) == IF has_cb THEN "on_show" ELSE "set_visible"

\* An exception caught by show_window's or hide_window's outer except.
Caught(t) ==
    /\ pc' = [pc EXCEPT ![t] = ReturnPc(t)]
    /\ op_failed' = [op_failed EXCEPT ![t] = TRUE]

show_window_begin(t) ==
    /\ pc[t] = "show_begin"
    /\ pc' = [pc EXCEPT ![t] = IF page THEN ShowFirstStep(on_show) ELSE ReturnPc(t)]
    /\ UNCHANGED <<clock, last_trigger_time, trigger_lock, window_visible,
                   page_window_visible, page, on_show, on_hide, toggle_log,
                   events, pre_show, outcome, op_failed, fires>>
    /\ WinFrame

\* self.on_show() is entered: the pre-show notification is being delivered.
show_window_on_show(t) ==
    /\ pc[t] = "on_show"
    /\ pre_show' = [pre_show EXCEPT ![t] = "running"]
    /\ events' = [events EXCEPT ![t] = Append(@, "PRE_SHOW")]
    /\ pc' = [pc EXCEPT ![t] = "on_show_ret"]
    /\ UNCHANGED <<clock, last_trigger_time, trigger_lock, window_visible,
                   page_window_visible, page, on_show, on_hide, toggle_log,
                   outcome, op_failed, fires>>
    /\ WinFrame

\* self.on_show() returns, or raises into the inner except: both continue.
show_window_on_show_ret(t) ==
    /\ pc[t] = "on_show_ret"
    /\ pre_show' = [pre_show EXCEPT ![t] = "done"]
    /\ pc' = [pc EXCEPT ![t] = "set_visible"]
    /\ UNCHANGED <<clock, last_trigger_time, trigger_lock, window_visible,
                   page_window_visible, page, on_show, on_hide, toggle_log,
                   events, outcome, op_failed, fires>>
    /\ WinFrame

\* self.page.window.visible = True
show_window_set_visible(t) ==
    /\ pc[t] = "set_visible"
    /\ \/ /\ page_window_visible' = TRUE
          /\ pc' = [pc EXCEPT ![t] = "to_front"]
          /\ UNCHANGED op_failed
       \/ /\ Caught(t)
          /\ UNCHANGED page_window_visible
    /\ UNCHANGED <<clock, last_trigger_time, trigger_lock, window_visible,
                   page, on_show, on_hide, toggle_log, events, pre_show,
                   outcome, fires>>
    /\ WinFrame

\* self.page.window.to_front()
show_window_to_front(t) ==
    /\ pc[t] = "to_front"
    /\ \/ /\ pc' = [pc EXCEPT ![t] = "page_update"]
          /\ UNCHANGED op_failed
       \/ Caught(t)
    /\ UNCHANGED <<clock, last_trigger_time, trigger_lock, window_visible,
                   page_window_visible, page, on_show, on_hide, toggle_log,
                   events, pre_show, outcome, fires>>
    /\ WinFrame

\* self.page.update(); self.window_visible = True
show_window_update(t) ==
    /\ pc[t] = "page_update"
    /\ \/ /\ window_visible' = TRUE
          /\ pc' = [pc EXCEPT ![t] = ReturnPc(t)]
          /\ UNCHANGED op_failed
       \/ /\ Caught(t)
          /\ UNCHANGED window_visible
    /\ UNCHANGED <<clock, last_trigger_time, trigger_lock, page_window_visible,
                   page, on_show, on_hide, toggle_log, events, pre_show,
                   outcome, fires>>
    /\ WinFrame

\* hide_window called directly by the UI thread (close event, Hide button).
ui_hide_window(t) ==
    /\ t = UiThread
    /\ pc[t] = "idle"
    /\ StartCall(t)
    /\ pc' = [pc EXCEPT ![t] = "hide_begin"]
    /\ outcome' = [outcome EXCEPT ![t] = "hide"]
    /\ UNCHANGED <<clock, last_trigger_time, trigger_lock, window_visible,
                   page_window_visible, page, on_show, on_hide, toggle_log>>
    /\ WinFrame

hide_window_begin(t) ==
    /\ pc[t] = "hide_begin"
    /\ pc' = [pc EXCEPT ![t] = IF page THEN "hide_set" ELSE ReturnPc(t)]
    /\ UNCHANGED <<clock, last_trigger_time, trigger_lock, window_visible,
                   page_window_visible, page, on_show, on_hide, toggle_log,
                   events, pre_show, outcome, op_failed, fires>>
    /\ WinFrame

\* self.page.window.visible = False
hide_window_set(t) ==
    /\ pc[t] = "hide_set"
    /\ \/ /\ page_window_visible' = FALSE
          /\ pc' = [pc EXCEPT ![t] = "hide_update"]
          /\ UNCHANGED op_failed
       \/ /\ Caught(t)
          /\ UNCHANGED page_window_visible
    /\ UNCHANGED <<clock, last_trigger_time, trigger_lock, window_visible,
                   page, on_show, on_hide, toggle_log, events, pre_show,
                   outcome, fires>>
    /\ WinFrame

\* self.page.update(); self.window_visible = False
hide_window_update(t) ==
    /\ pc[t] = "hide_update"
    /\ \/ /\ window_visible' = FALSE
          /\ pc' = [pc EXCEPT ![t] = IF on_hide THEN "on_hide" ELSE ReturnPc(t)]
          /\ UNCHANGED op_failed
       \/ /\ Caught(t)
          /\ UNCHANGED window_visible
    /\ UNCHANGED <<clock, last_trigger_time, trigger_lock, page_window_visible,
                   page, on_show, on_hide, toggle_log, events, pre_show,
                   outcome, fires>>
    /\ WinFrame

\* self.on_hide(): returns, or raises into the inner except.
hide_window_on_hide(t) ==
    /\ pc[t] = "on_hide"
    /\ events' = [events EXCEPT ![t] = Append(@, "HIDDEN")]
    /\ pc' = [pc EXCEPT ![t] = ReturnPc(t)]
    /\ UNCHANGED <<clock, last_trigger_time, trigger_lock, window_visible,
                   page_window_visible, page, on_show, on_hide, toggle_log,
                   pre_show, outcome, op_failed, fires>>
    /\ WinFrame

\* SystrayManager._on_settings_click: shows the window without the manager
\* and emits WINDOW_SHOWN.
systray_settings_click ==
    /\ fires < MaxFires
    /\ fires' = fires + 1
    /\ IF page /\ ~page_window_visible
         THEN /\ page_window_visible' = TRUE
              /\ events' = [events EXCEPT ![SystrayThread] = <<"SHOWN">>]
         ELSE /\ events' = [events EXCEPT ![SystrayThread] = <<>>]
              /\ UNCHANGED page_window_visible
    /\ UNCHANGED <<clock, last_trigger_time, trigger_lock, window_visible,
                   page, on_show, on_hide, pc, toggle_log, pre_show, outcome,
                   op_failed>>
    /\ WinFrame

\* show_about (the systray's About item): page.window.visible = True, a
\* snack bar, page.update().
show_about ==
    /\ fires < MaxFires
    /\ fires' = fires + 1
    /\ page_window_visible' = (page \/ page_window_visible)
    /\ events' = [events EXCEPT ![SystrayThread] = <<>>]
    /\ UNCHANGED <<clock, last_trigger_time, trigger_lock, window_visible,
                   page, on_show, on_hide, pc, toggle_log, pre_show, outcome,
                   op_failed>>
    /\ WinFrame

ToggleStep(t) ==
    \/ toggle_window_acquire(t)
    \/ toggle_window_dropped(t)
    \/ toggle_window_check(t)
    \/ toggle_window_raise(t)
    \/ toggle_window_release(t)
    \/ show_window_begin(t)
    \/ show_window_on_show(t)
    \/ show_window_on_show_ret(t)
    \/ show_window_set_visible(t)
    \/ show_window_to_front(t)
    \/ show_window_update(t)
    \/ hide_window_begin(t)
    \/ hide_window_set(t)
    \/ hide_window_update(t)
    \/ hide_window_on_hide(t)

\* --------------------------------------- the pywebview WindowManager

\* The hotkey listener thread calls show_window / hide_window (through
\* toggle_window); on_closing starts a worker thread that hides.
WvCaller == "hotkey"
WvCloser == "closer"
WvThreads == {WvCaller, WvCloser}

\* __init__: no window reference, nothing registered, window_visible False.
WebviewInit ==
    /\ webview_windows = FALSE
    /\ window_ref = FALSE
    /\ window_initialized = FALSE
    /\ closing_handlers = 0
    /\ wv_window_visible = FALSE
    /\ wv_shown = FALSE
    /\ wv_pc = [t \in WvThreads |-> "idle"]
    /\ wv_calls = 0
    /\ wv_shows = 0

\* pywebview creates the native window (hidden) some time after start.
wv_window_created ==
    /\ ~webview_windows
    /\ webview_windows' = TRUE
    /\ UNCHANGED <<window_ref, window_initialized, closing_handlers,
                   wv_window_visible, wv_shown, wv_pc, wv_calls, wv_shows>>
    /\ WvFrame

\* A show_window that registers the close handler on every call.
NeedsRegistrationAlways(initialized) == TRUE

\* "if not self.window_initialized"
NeedsRegistration(initialized) == ~initialized

wv_call_show ==
    /\ wv_pc[WvCaller] = "idle"
    /\ wv_calls < MaxCalls
    /\ wv_calls' = wv_calls + 1
    /\ wv_pc' = [wv_pc EXCEPT ![WvCaller] = "show_get_window"]
    /\ UNCHANGED <<webview_windows, window_ref, window_initialized,
                   closing_handlers, wv_window_visible, wv_shown, wv_shows>>
    /\ WvFrame

wv_call_hide ==
    /\ wv_pc[WvCaller] = "idle"
    /\ wv_calls < MaxCalls
    /\ wv_calls' = wv_calls + 1
    /\ wv_pc' = [wv_pc EXCEPT ![WvCaller] = "hide_get_window"]
    /\ UNCHANGED <<webview_windows, window_ref, window_initialized,
                   closing_handlers, wv_window_visible, wv_shown, wv_shows>>
    /\ WvFrame

\* An on_closing that lets the window close.
OnClosingReturnsTrue == TRUE

\* "return False" (line 82): pywebview cancels the close.
OnClosingReturns == FALSE

\* on_closing: the user closes the shown window; the registered handler
\* starts hide_in_thread and returns False.  pywebview destroys the window
\* when the handler does not return False.
wv_on_closing ==
    /\ wv_shown
    /\ closing_handlers > 0
    /\ wv_pc[WvCloser] = "idle"
    /\ wv_pc' = [wv_pc EXCEPT ![WvCloser] = "hide_get_window"]
    /\ close_ret' = IF OnClosingReturns THEN "True" ELSE "False"
    /\ hide_raised' = FALSE
    /\ webview_windows' = (webview_windows /\ ~OnClosingReturns)
    /\ wv_shown' = (wv_shown /\ ~OnClosingReturns)
    /\ UNCHANGED <<window_ref, window_initialized, closing_handlers,
                   wv_window_visible, wv_calls, wv_shows>>
    /\ WvCloseFrame

\* show_window: window = self.get_window(); "if window" / else warning.
wv_show_get_window(t) ==
    /\ wv_pc[t] = "show_get_window"
    /\ window_ref' = (window_ref \/ webview_windows)
    /\ wv_pc' = [wv_pc EXCEPT ![t] =
                   IF window_ref \/ webview_windows
                     THEN IF NeedsRegistration(window_initialized)
                            THEN "register" ELSE "restore"
                     ELSE "idle"]
    /\ UNCHANGED <<webview_windows, window_initialized, closing_handlers,
                   wv_window_visible, wv_shown, wv_calls, wv_shows>>
    /\ WvFrame

\* window.events.closing += self.on_closing (or it raises: outer except)
wv_show_register(t) ==
    /\ wv_pc[t] = "register"
    /\ \/ /\ closing_handlers' = closing_handlers + 1
          /\ wv_pc' = [wv_pc EXCEPT ![t] = "set_initialized"]
       \/ /\ wv_pc' = [wv_pc EXCEPT ![t] = "idle"]
          /\ UNCHANGED closing_handlers
    /\ UNCHANGED <<webview_windows, window_ref, window_initialized,
                   wv_window_visible, wv_shown, wv_calls, wv_shows>>
    /\ WvFrame

\* self.window_initialized = True
wv_show_set_initialized(t) ==
    /\ wv_pc[t] = "set_initialized"
    /\ window_initialized' = TRUE
    /\ wv_pc' = [wv_pc EXCEPT ![t] = "restore"]
    /\ UNCHANGED <<webview_windows, window_ref, closing_handlers,
                   wv_window_visible, wv_shown, wv_calls, wv_shows>>
    /\ WvFrame

\* window.restore(); window.show() (or one raises: outer except)
wv_show_restore(t) ==
    /\ wv_pc[t] = "restore"
    /\ \/ /\ wv_shown' = TRUE
          /\ wv_pc' = [wv_pc EXCEPT ![t] = "on_top"]
       \/ /\ wv_pc' = [wv_pc EXCEPT ![t] = "idle"]
          /\ UNCHANGED wv_shown
    /\ UNCHANGED <<webview_windows, window_ref, window_initialized,
                   closing_handlers, wv_window_visible, wv_calls, wv_shows>>
    /\ WvFrame

\* window.on_top = True (a failure is caught inside); self.window_visible = True
wv_show_on_top(t) ==
    /\ wv_pc[t] = "on_top"
    /\ wv_window_visible' = TRUE
    /\ wv_shows' = wv_shows + 1
    /\ wv_pc' = [wv_pc EXCEPT ![t] = "idle"]
    /\ UNCHANGED <<webview_windows, window_ref, window_initialized,
                   closing_handlers, wv_shown, wv_calls>>
    /\ WvFrame

\* hide_window: window = self.get_window()
wv_hide_get_window(t) ==
    /\ wv_pc[t] = "hide_get_window"
    /\ window_ref' = (window_ref \/ webview_windows)
    /\ wv_pc' = [wv_pc EXCEPT ![t] =
                   IF window_ref \/ webview_windows THEN "hide" ELSE "idle"]
    /\ UNCHANGED <<webview_windows, window_initialized, closing_handlers,
                   wv_window_visible, wv_shown, wv_calls, wv_shows>>
    /\ WvFrame

\* window.hide(); self.window_visible = False (or hide raises: except)
wv_hide(t) ==
    /\ wv_pc[t] = "hide"
    /\ \/ /\ wv_shown' = FALSE
          /\ wv_window_visible' = FALSE
          /\ UNCHANGED hide_raised
       \/ /\ UNCHANGED <<wv_shown, wv_window_visible>>
          /\ hide_raised' = (hide_raised \/ t = WvCloser)
    /\ wv_pc' = [wv_pc EXCEPT ![t] = "idle"]
    /\ UNCHANGED <<webview_windows, window_ref, window_initialized,
                   closing_handlers, wv_calls, wv_shows, close_ret>>
    /\ WvCloseFrame

WebviewStep(t) ==
    \/ wv_show_get_window(t)
    \/ wv_show_register(t)
    \/ wv_show_set_initialized(t)
    \/ wv_show_restore(t)
    \/ wv_show_on_top(t)
    \/ wv_hide_get_window(t)
    \/ wv_hide(t)

WebviewNext ==
    \/ wv_window_created
    \/ wv_call_show
    \/ wv_call_hide
    \/ wv_on_closing
    \/ \E t \in WvThreads : WebviewStep(t)

\* ----------------------------------------------------------- HotkeyManager

\* The UI thread (settings, capture dialog, quit) and register_delayed's
\* delayed_setup thread call the manager.
HkThreads == {"ui", "setup"}

\* Combinations the keyboard library can bind, and one it cannot parse.
ValidCombos == {"ctrl+space", "alt+x"}
ConfigValues == ValidCombos \cup {"", "ctrl+foo"}

NoReturn ==
    [op |-> "none", val |-> FALSE, hotkey |-> "", cleared |-> 0,
     failed |-> "", raised |-> FALSE]

\* The value a call returns: op the method, val its result, hotkey the
\* combination register read, cleared the bindings it removed, failed the
\* keyboard call that raised ("" for none), raised whether the exception
\* left the method.
Return(op, val, hotkey, cleared, failed) ==
    [op |-> op, val |-> val, hotkey |-> hotkey, cleared |-> cleared,
     failed |-> failed, raised |-> FALSE]

\* Whether unhook_all or remove_hotkey raises: they can when the listener
\* is faulty (no permission for the hook, a broken backend).
KbRaises == IF kb_faulty THEN BOOLEAN ELSE {FALSE}

\* __init__: nothing tracked; the library holds no binding at process start.
HotkeyManagerInit ==
    /\ HOTKEY_COMBINATION \in ConfigValues
    /\ kb_hotkeys = <<>>
    /\ hotkey_hook = ""
    /\ toggle_callback = FALSE
    /\ hk_pc = [t \in HkThreads |-> "idle"]
    /\ hk_hotkey = [t \in HkThreads |-> ""]
    /\ hk_ret = NoReturn
    /\ kb_faulty \in BOOLEAN

\* A register that leaves the existing bindings in place.
AfterUnhookAllKeep(hooks) == hooks

\* keyboard.unhook_all(): every binding is removed.
AfterUnhookAll(hooks) == <<>>

\* An unregister that leaves the binding in place.
AfterRemoveHotkeyNone(hooks, name) == hooks

\* keyboard.remove_hotkey(name): the latest binding of that name goes.
RECURSIVE AfterRemoveHotkey(_, _)
AfterRemoveHotkey(hooks, name) ==
    IF hooks = <<>> THEN <<>>
    ELSE IF hooks[Len(hooks)] = name THEN SubSeq(hooks, 1, Len(hooks) - 1)
    ELSE Append(AfterRemoveHotkey(SubSeq(hooks, 1, Len(hooks) - 1), name),
                hooks[Len(hooks)])

Bound(hooks, name) == \E i \in 1..Len(hooks) : hooks[i] = name

\* Calls are made one after another.
HkSequential == \A u \in HkThreads : hk_pc[u] = "idle"

\* The settings view stores a new combination (or "" to disable).
hk_set_config(c) ==
    /\ HkSequential
    /\ c # HOTKEY_COMBINATION
    /\ HOTKEY_COMBINATION' = c
    /\ UNCHANGED <<kb_hotkeys, hotkey_hook, toggle_callback, hk_pc, hk_hotkey,
                   hk_ret, kb_faulty>>
    /\ HkFrame

\* register: hotkey = self.config.HOTKEY_COMBINATION; "if not hotkey".
RegisterBegin(t) ==
    /\ hk_pc[t] = "idle"
    /\ hk_hotkey' = [hk_hotkey EXCEPT ![t] = HOTKEY_COMBINATION]
    /\ hk_pc' = [hk_pc EXCEPT ![t] =
                   IF HOTKEY_COMBINATION = "" THEN "r_cleanup" ELSE "r_unhook"]
    /\ hk_ret' = NoReturn
    /\ UNCHANGED <<HOTKEY_COMBINATION, kb_hotkeys, hotkey_hook, toggle_callback,
                   kb_faulty>>

register_begin(t) == RegisterBegin(t) /\ HkFrame

\* register, hotkey disabled: self.cleanup(); return False
RegisterCleanup(t, fails) ==
    /\ hk_pc[t] = "r_cleanup"
    /\ IF fails
       THEN /\ hk_ret' = Return("register", FALSE, hk_hotkey[t], 0, "unhook_all")
            /\ UNCHANGED <<kb_hotkeys, hotkey_hook, toggle_callback>>
       ELSE /\ kb_hotkeys' = AfterUnhookAll(kb_hotkeys)
            /\ hotkey_hook' = ""
            /\ toggle_callback' = FALSE
            /\ hk_ret' = Return("register", FALSE, hk_hotkey[t],
                                Len(kb_hotkeys), "")
    /\ hk_pc' = [hk_pc EXCEPT ![t] = "idle"]
    /\ UNCHANGED <<HOTKEY_COMBINATION, hk_hotkey, kb_faulty>>

register_cleanup(t) ==
    /\ \E fails \in KbRaises : RegisterCleanup(t, fails)
    /\ HkFrame

\* register: keyboard.unhook_all(); self._hotkey_hook = None
RegisterUnhook(t, fails) ==
    /\ hk_pc[t] = "r_unhook"
    /\ IF fails
       THEN \* the except clause: return False
            /\ hk_ret' = Return("register", FALSE, hk_hotkey[t], 0, "unhook_all")
            /\ hk_pc' = [hk_pc EXCEPT ![t] = "idle"]
            /\ UNCHANGED <<kb_hotkeys, hotkey_hook>>
       ELSE /\ kb_hotkeys' = AfterUnhookAll(kb_hotkeys)
            /\ hotkey_hook' = ""
            /\ hk_ret' = [hk_ret EXCEPT !.cleared = Len(kb_hotkeys)]
            /\ hk_pc' = [hk_pc EXCEPT ![t] = "r_add"]
    /\ UNCHANGED <<HOTKEY_COMBINATION, toggle_callback, hk_hotkey, kb_faulty>>

register_unhook(t) ==
    /\ \E fails \in KbRaises : RegisterUnhook(t, fails)
    /\ HkFrame

\* register: self._toggle_callback = cb; keyboard.add_hotkey(hotkey, cb),
\* which raises for a combination it cannot parse or when the hook fails.
register_add(t) ==
    /\ hk_pc[t] = "r_add"
    /\ toggle_callback' = TRUE
    /\ \/ /\ hk_hotkey[t] \in ValidCombos
          /\ kb_hotkeys' = Append(kb_hotkeys, hk_hotkey[t])
          /\ hk_pc' = [hk_pc EXCEPT ![t] = "r_set"]
          /\ UNCHANGED hk_ret
       \/ /\ hk_ret' = Return("register", FALSE, hk_hotkey[t], hk_ret.cleared,
                               "add_hotkey")
          /\ hk_pc' = [hk_pc EXCEPT ![t] = "idle"]
          /\ UNCHANGED kb_hotkeys
    /\ UNCHANGED <<HOTKEY_COMBINATION, hotkey_hook, hk_hotkey, kb_faulty>>
    /\ HkFrame

\* register: self._hotkey_hook = hotkey; return True
register_set(t) ==
    /\ hk_pc[t] = "r_set"
    /\ hotkey_hook' = hk_hotkey[t]
    /\ hk_ret' = Return("register", TRUE, hk_hotkey[t], hk_ret.cleared, "")
    /\ hk_pc' = [hk_pc EXCEPT ![t] = "idle"]
    /\ UNCHANGED <<HOTKEY_COMBINATION, kb_hotkeys, toggle_callback, hk_hotkey,
                   kb_faulty>>
    /\ HkFrame

\* unregister
Unregister(t) ==
    /\ hk_pc[t] = "idle"
    /\ \E fails \in KbRaises :
         IF hotkey_hook = ""
         THEN \* nothing tracked: return False
              /\ hk_ret' = Return("unregister", FALSE, "", 0, "")
              /\ UNCHANGED <<kb_hotkeys, hotkey_hook, toggle_callback>>
         ELSE IF Bound(kb_hotkeys, hotkey_hook) /\ ~fails
         THEN /\ kb_hotkeys' = AfterRemoveHotkey(kb_hotkeys, hotkey_hook)
              /\ hotkey_hook' = ""
              /\ toggle_callback' = FALSE
              /\ hk_ret' = Return("unregister", TRUE, "", 1, "")
         ELSE \* remove_hotkey raises (KeyError for an unknown binding)
              /\ hk_ret' = Return("unregister", FALSE, "", 0, "remove_hotkey")
              /\ UNCHANGED <<kb_hotkeys, hotkey_hook, toggle_callback>>
    /\ UNCHANGED <<HOTKEY_COMBINATION, hk_pc, hk_hotkey, kb_faulty>>

unregister(t) == Unregister(t) /\ HkFrame

\* cleanup
cleanup(t) ==
    /\ hk_pc[t] = "idle"
    /\ \E fails \in KbRaises :
          IF fails
          THEN /\ hk_ret' = Return("cleanup", FALSE, "", 0, "unhook_all")
               /\ UNCHANGED <<kb_hotkeys, hotkey_hook, toggle_callback>>
          ELSE /\ kb_hotkeys' = AfterUnhookAll(kb_hotkeys)
               /\ hotkey_hook' = ""
               /\ toggle_callback' = FALSE
               /\ hk_ret' = Return("cleanup", FALSE, "", Len(kb_hotkeys), "")
    /\ UNCHANGED <<HOTKEY_COMBINATION, hk_pc, hk_hotkey, kb_faulty>>
    /\ HkFrame

HotkeyNext ==
    \/ \E c \in ConfigValues : hk_set_config(c)
    \/ \E t \in HkThreads :
         \/ HkSequential /\ register_begin(t)
         \/ HkSequential /\ unregister(t)
         \/ HkSequential /\ cleanup(t)
         \/ register_cleanup(t)
         \/ register_unhook(t)
         \/ register_add(t)
         \/ register_set(t)

\* ------------------------------------------------------- InputSourceService
\* (services/input_source.py).  A text is a sequence of characters; the
\* clipboard holds a text format, an image format, both or neither.

\* max_retries, the default of get_selection_text's parameter.
max_retries == 3

NoText == <<>>
Blank == <<" ">>
ExistingFiles == {<<"p">>}
UserTexts == {NoText, Blank, <<"b">>}
Selections == {NoText, Blank, <<"a">>, <<" ", "a", " ">>, <<"p">>}

\* pyperclip.copy(text): the clipboard is emptied and holds the text alone.
Copy(text) == [image |-> FALSE, text |-> text]
\* pyperclip.paste(): the text format, "" when the clipboard has none.
Paste(clip) == clip.text

ImageClip == [image |-> TRUE, text |-> NoText]
UserClipboards == {Copy(s) : s \in UserTexts} \cup
                  {ImageClip, [image |-> TRUE, text |-> <<"b">>]}

\* Python's None, and a str value.
None == [some |-> FALSE, text |-> NoText]
Str(text) == [some |-> TRUE, text |-> text]
\* Truthiness of an Optional[str]: neither None nor "".
Truthy(v) == v.some /\ v.text # NoText

RECURSIVE LStrip(_)
LStrip(s) == IF s # <<>> /\ Head(s) = " " THEN LStrip(Tail(s)) ELSE s

RECURSIVE RStrip(_)
RStrip(s) ==
    IF s # <<>> /\ s[Len(s)] = " " THEN RStrip(SubSeq(s, 1, Len(s) - 1)) ELSE s

\* str.strip()
Strip(s) == RStrip(LStrip(s))

\* A test that takes no text for a file.
is_file_path_never(text) == FALSE

\* _is_file_path(text): the text names an existing file.
is_file_path(text) == text \in ExistingFiles

\* An OS call (clipboard access, key simulation) may raise; the service
\* catches the exception.  MaxFailures bounds the failures of a behaviour.
OsOutcome == IF gs_failures < MaxFailures THEN {FALSE, TRUE} ELSE {FALSE}

RecordFailure(fails, call) ==
    /\ gs_failures' = gs_failures + (IF fails THEN 1 ELSE 0)
    /\ os_failed' = IF fails THEN os_failed \cup {call} ELSE os_failed

\* InputState(): every field None.
EmptyInputState ==
    [clipboard_text |-> None, clipboard_image |-> FALSE, selection_text |-> None]

\* A read that ignores the failure of the OS call.
ReadResultAnyway(fails, clip) == Str(Paste(clip))

\* What a clipboard read returns: None when the OS call raised.
ReadResult(fails, clip) == IF fails THEN None ELSE Str(Paste(clip))

\* text.strip() if text and text.strip() else None
StrippedOrNone(v) ==
    IF Truthy(v) /\ Strip(v.text) # NoText THEN Str(Strip(v.text)) ELSE None

\* A restoration that always clears.
AfterRestoreCleared(backup) == Copy(NoText)

\* The clipboard after the restoration at the end of get_selection_text.
AfterRestore(backup) ==
    IF Truthy(backup) THEN Copy(backup.text) ELSE Copy(NoText)

\* current_clipboard and current_clipboard.strip() (line 184)
IsHit(cur) == Truthy(cur) /\ Strip(cur.text) # NoText

\* A loop that sleeps retry_delay after every empty attempt.
WaitsAfterAlways(att) == TRUE

\* if attempt < max_retries - 1: time.sleep(retry_delay) (lines 198-200)
WaitsAfter(att) == att < max_retries - 1

\* Replaces the last element of a sequence of attempts.
SetLast(rounds, r) == [rounds EXCEPT ![Len(rounds)] = r]

InputSourceInit ==
    /\ platform_system \in {"Windows", "Linux"}
    /\ os_clipboard = Copy(NoText)
    /\ fg_selection = NoText
    /\ clipboard_backup = None
    /\ current_clipboard = None
    /\ selected_text = None
    /\ attempt = 0
    /\ gs_pc = "idle"
    /\ gs_calls = 0
    /\ gs_failures = 0
    /\ os_failed = {}
    /\ clip_before = Copy(NoText)
    /\ gs_rounds = <<>>
    /\ last_state = EmptyInputState

\* Between two captures the user copies something or changes the selection
\* in the foreground application.
user_copy(c) ==
    /\ gs_pc \in {"idle", "detected"}
    /\ gs_calls < MaxCaptures
    /\ c # os_clipboard
    /\ os_clipboard' = c
    /\ gs_pc' = "idle"
    /\ UNCHANGED <<platform_system, fg_selection, clipboard_backup,
                   current_clipboard, selected_text, attempt, gs_calls,
                   gs_failures, os_failed, clip_before>>
    /\ UNCHANGED <<gs_rounds, last_state>>
    /\ ClipFrame

user_select(s) ==
    /\ gs_pc \in {"idle", "detected"}
    /\ gs_calls < MaxCaptures
    /\ s # fg_selection
    /\ fg_selection' = s
    /\ gs_pc' = "idle"
    /\ UNCHANGED <<platform_system, os_clipboard, clipboard_backup,
                   current_clipboard, selected_text, attempt, gs_calls,
                   gs_failures, os_failed, clip_before>>
    /\ UNCHANGED <<gs_rounds, last_state>>
    /\ ClipFrame

\* get_selection_text is entered: the platform test (lines 151-153).
get_selection_text_begin ==
    /\ gs_pc \in {"idle", "detected"}
    /\ gs_calls < MaxCaptures
    /\ gs_calls' = gs_calls + 1
    /\ clip_before' = os_clipboard
    /\ os_failed' = {}
    /\ clipboard_backup' = None
    /\ current_clipboard' = None
    /\ selected_text' = None
    /\ attempt' = 0
    /\ gs_pc' = IF platform_system # "Windows" THEN "returned" ELSE "backup"
    /\ gs_rounds' = <<>>
    /\ UNCHANGED <<platform_system, os_clipboard, fg_selection, gs_failures,
                   last_state>>
    /\ ClipFrame

\* clipboard_backup = self.backup_clipboard() (line 158).
gs_backup ==
    /\ gs_pc = "backup"
    /\ \E fails \in OsOutcome :
        /\ clipboard_backup' = ReadResult(fails, os_clipboard)
        /\ RecordFailure(fails, "backup")
    /\ gs_pc' = "clear"
    /\ UNCHANGED <<platform_system, os_clipboard, fg_selection,
                   current_clipboard, selected_text, attempt, gs_calls,
                   clip_before>>
    /\ UNCHANGED <<gs_rounds, last_state>>
    /\ ClipFrame

\* self.clear_clipboard() at the head of an attempt (line 173).
gs_clear ==
    /\ gs_pc = "clear"
    /\ \E fails \in OsOutcome :
        /\ os_clipboard' = IF fails THEN os_clipboard ELSE Copy(NoText)
        /\ RecordFailure(fails, "clear")
        /\ gs_rounds' = Append(gs_rounds, [cleared |-> ~fails, sent |-> FALSE,
                                            read |-> None, waited |-> FALSE])
    /\ gs_pc' = "ctrl_c"
    /\ UNCHANGED <<platform_system, fg_selection, clipboard_backup,
                   current_clipboard, selected_text, attempt, gs_calls,
                   clip_before, last_state>>
    /\ ClipFrame

\* self._simulate_ctrl_c() and the sleep (lines 176-179): the foreground
\* application copies its selection, if it has one.
gs_ctrl_c ==
    /\ gs_pc = "ctrl_c"
    /\ \E fails \in OsOutcome :
        /\ os_clipboard' = IF fails \/ fg_selection = NoText
                           THEN os_clipboard
                           ELSE Copy(fg_selection)
        /\ RecordFailure(fails, "ctrl_c")
        /\ gs_rounds' = SetLast(gs_rounds, [gs_rounds[Len(gs_rounds)]
                                               EXCEPT !.sent = ~fails])
    /\ gs_pc' = "read"
    /\ UNCHANGED <<platform_system, fg_selection, clipboard_backup,
                   current_clipboard, selected_text, attempt, gs_calls,
                   clip_before, last_state>>
    /\ ClipFrame

\* current_clipboard = self.backup_clipboard() and the test on it
\* (lines 182-203).
gs_read ==
    /\ gs_pc = "read"
    /\ \E fails \in OsOutcome :
        LET cur == ReadResult(fails, os_clipboard)
            stripped == Strip(cur.text)
        IN  /\ current_clipboard' = cur
            /\ RecordFailure(fails, "read")
            /\ gs_rounds' = SetLast(gs_rounds, [gs_rounds[Len(gs_rounds)]
                   EXCEPT !.read = cur,
                          !.waited = (~IsHit(cur) /\ WaitsAfter(attempt))])
            /\ IF Truthy(cur) /\ stripped # NoText
               THEN /\ selected_text' =
                          IF is_file_path(stripped) THEN None ELSE Str(stripped)
                    /\ attempt' = attempt
                    /\ gs_pc' = "restore"
               ELSE /\ selected_text' = selected_text
                    /\ IF attempt < max_retries - 1
                       THEN attempt' = attempt + 1 /\ gs_pc' = "clear"
                       ELSE attempt' = attempt /\ gs_pc' = "restore"
    /\ UNCHANGED <<platform_system, os_clipboard, fg_selection,
                   clipboard_backup, gs_calls, clip_before, last_state>>
    /\ ClipFrame

\* The restoration and the return (lines 205-212).
gs_restore ==
    /\ gs_pc = "restore"
    /\ \E fails \in OsOutcome :
        /\ os_clipboard' =
              IF fails THEN os_clipboard ELSE AfterRestore(clipboard_backup)
        /\ RecordFailure(fails, "restore")
    /\ gs_pc' = "returned"
    /\ UNCHANGED <<platform_system, fg_selection, clipboard_backup,
                   current_clipboard, selected_text, attempt, gs_calls,
                   clip_before>>
    /\ UNCHANGED <<gs_rounds, last_state>>
    /\ ClipFrame

\* detect_sources, after get_selection_text: clipboard_text =
\* self.get_clipboard_text() (line 229).
ds_clipboard_text ==
    /\ gs_pc = "returned"
    /\ \E fails \in OsOutcome :
        /\ last_state' = [EmptyInputState EXCEPT
               !.clipboard_text = StrippedOrNone(ReadResult(fails, os_clipboard))]
        /\ RecordFailure(fails, "get_text")
    /\ gs_pc' = "ds_image"
    /\ UNCHANGED <<platform_system, os_clipboard, fg_selection, clipboard_backup,
                   current_clipboard, selected_text, attempt, gs_calls,
                   clip_before, gs_rounds>>
    /\ ClipFrame

\* clipboard_image = self.get_clipboard_image(); the InputState is built and
\* stored (lines 230-245).
ds_clipboard_image ==
    /\ gs_pc = "ds_image"
    /\ \E fails \in OsOutcome :
        /\ last_state' = [last_state EXCEPT
               !.clipboard_image = (~fails /\ os_clipboard.image),
               !.selection_text = selected_text]
        /\ RecordFailure(fails, "get_image")
    /\ gs_pc' = "detected"
    /\ UNCHANGED <<platform_system, os_clipboard, fg_selection, clipboard_backup,
                   current_clipboard, selected_text, attempt, gs_calls,
                   clip_before, gs_rounds>>
    /\ ClipFrame

\* The next step of a call that is under way.
InputSourceStep ==
    \/ gs_backup
    \/ gs_clear
    \/ gs_ctrl_c
    \/ gs_read
    \/ gs_restore
    \/ ds_clipboard_text
    \/ ds_clipboard_image

InputSourceNext ==
    \/ \E c \in UserClipboards : user_copy(c)
    \/ \E s \in Selections : user_select(s)
    \/ get_selection_text_begin
    \/ gs_backup
    \/ gs_clear
    \/ gs_ctrl_c
    \/ gs_read
    \/ gs_restore
    \/ ds_clipboard_text
    \/ ds_clipboard_image

\* ---------------------------------------------------------------- PromptBar
\* (ui/components/input/prompt_bar.py).  An attachment is a record of its
\* id, type, content and source; "" stands for None.

ID_SELECTION_TEXT == "selection_text"
ID_CLIPBOARD_TEXT == "clipboard_text"
ID_CLIPBOARD_IMAGE == "clipboard_image"

\* The InputState values detect_sources can return: a text is None or
\* non-empty, the image is there or not.
InputStates ==
    [selection_text : {"", "X", "X2"}, clipboard_text : {"", "Y"},
     clipboard_image : BOOLEAN, is_set : {TRUE}]

\* self.input_state = None, before the first refresh.
NoInputState ==
    [selection_text |-> "", clipboard_text |-> "", clipboard_image |-> FALSE,
     is_set |-> FALSE]

has_selection(st) == st.selection_text # ""
has_clipboard_content(st) == st.clipboard_text # "" \/ st.clipboard_image

\* The uuid4 of the n-th picked file.
FileId(n) == IF n = 1 THEN "file1" ELSE IF n = 2 THEN "file2" ELSE "file3"
FileIds == {FileId(n) : n \in 1..MaxFiles}

remove_selection_attachment(atts) ==
    SelectSeq(atts, LAMBDA a : a.id # ID_SELECTION_TEXT)

remove_clipboard_attachments(atts) ==
    SelectSeq(atts, LAMBDA a : a.id \notin {ID_CLIPBOARD_TEXT, ID_CLIPBOARD_IMAGE})

\* An addition that does not remove the earlier selection attachment.
add_selection_attachment_keep(atts, st) ==
    IF ~st.is_set \/ st.selection_text = ""
    THEN atts
    ELSE Append(atts, [id |-> ID_SELECTION_TEXT, type |-> "text",
                       content |-> st.selection_text, source |-> "selection"])

add_selection_attachment(atts, st) ==
    IF ~st.is_set \/ st.selection_text = ""
    THEN atts
    ELSE Append(remove_selection_attachment(atts),
                [id |-> ID_SELECTION_TEXT, type |-> "text",
                 content |-> st.selection_text, source |-> "selection"])

add_clipboard_attachment(atts, st) ==
    IF ~st.is_set
    THEN atts
    ELSE LET kept == remove_clipboard_attachments(atts)
             withText ==
                 IF st.clipboard_text # ""
                 THEN Append(kept, [id |-> ID_CLIPBOARD_TEXT, type |-> "text",
                                    content |-> st.clipboard_text,
                                    source |-> "clipboard"])
                 ELSE kept
         IN  IF st.clipboard_image
             THEN Append(withText, [id |-> ID_CLIPBOARD_IMAGE, type |-> "image",
                                    content |-> "IMG", source |-> "clipboard"])
             ELSE withText

\* A test that never finds a clipboard attachment left.
remaining_clipboard_none(atts) == <<>>

\* _handle_remove_attachment's remaining_clipboard.
remaining_clipboard(atts) ==
    SelectSeq(atts, LAMBDA a : a.id \in {ID_CLIPBOARD_TEXT, ID_CLIPBOARD_IMAGE})

\* _reorder_attachments: the source attachments first, then the files.
reorder_attachments(atts) ==
    SelectSeq(atts, LAMBDA a : a.source \in {"selection", "clipboard"}) \o
    SelectSeq(atts, LAMBDA a : a.source \notin {"selection", "clipboard"})

PromptBarInit ==
    /\ attachments = <<>>
    /\ input_state = NoInputState
    /\ selection_active = FALSE
    /\ clipboard_active = FALSE
    /\ selection_visible = FALSE
    /\ clipboard_visible = FALSE
    /\ text_field_value = NoText
    /\ pb_last = [op |-> "init", arg |-> ""]
    /\ pb_ops = 0
    /\ pb_files = 0

\* _refresh_sources, with st the state detect_sources returns.
refresh_sources(st) ==
    /\ pb_ops < MaxOps
    /\ pb_ops' = pb_ops + 1
    /\ input_state' = st
    /\ selection_visible' = has_selection(st)
    /\ clipboard_visible' = has_clipboard_content(st)
    /\ selection_active' = has_selection(st)
    /\ clipboard_active' = (~has_selection(st) /\ has_clipboard_content(st))
    /\ attachments' = reorder_attachments(
           IF has_selection(st)
           THEN add_selection_attachment(attachments, st)
           ELSE IF has_clipboard_content(st)
                THEN add_clipboard_attachment(attachments, st)
                ELSE attachments)
    /\ pb_last' = [op |-> "refresh",
                   arg |-> IF pb_last.op = "refresh" /\ st = input_state
                           THEN "repeat" ELSE ""]
    /\ UNCHANGED <<text_field_value, pb_files>>
    /\ PbFrame

\* A click on the selection indicator: SourceIndicator._handle_click, then
\* _handle_source_toggle("selection", is_active).
click_selection ==
    /\ pb_ops < MaxOps
    /\ selection_visible
    /\ pb_ops' = pb_ops + 1
    /\ selection_active' = ~selection_active
    /\ IF ~selection_active
       THEN /\ clipboard_active' = FALSE
            /\ attachments' = reorder_attachments(add_selection_attachment(
                   remove_clipboard_attachments(attachments), input_state))
       ELSE /\ clipboard_active' = clipboard_active
            /\ attachments' =
                   reorder_attachments(remove_selection_attachment(attachments))
    /\ pb_last' = [op |-> "click", arg |-> "selection"]
    /\ UNCHANGED <<input_state, selection_visible, clipboard_visible,
                   text_field_value, pb_files>>
    /\ PbFrame

\* A click on the clipboard indicator.
click_clipboard ==
    /\ pb_ops < MaxOps
    /\ clipboard_visible
    /\ pb_ops' = pb_ops + 1
    /\ clipboard_active' = ~clipboard_active
    /\ IF ~clipboard_active
       THEN /\ selection_active' = FALSE
            /\ attachments' = reorder_attachments(add_clipboard_attachment(
                   remove_selection_attachment(attachments), input_state))
       ELSE /\ selection_active' = selection_active
            /\ attachments' =
                   reorder_attachments(remove_clipboard_attachments(attachments))
    /\ pb_last' = [op |-> "click", arg |-> "clipboard"]
    /\ UNCHANGED <<input_state, selection_visible, clipboard_visible,
                   text_field_value, pb_files>>
    /\ PbFrame

\* _handle_remove_attachment(att_id), from the thumbnail of an attachment.
handle_remove_attachment(att_id) ==
    /\ pb_ops < MaxOps
    /\ \E i \in 1..Len(attachments) : attachments[i].id = att_id
    /\ pb_ops' = pb_ops + 1
    /\ LET removed_att ==
               attachments[CHOOSE i \in 1..Len(attachments) :
                               /\ attachments[i].id = att_id
                               /\ \A j \in 1..(i - 1) : attachments[j].id # att_id]
           remaining ==
               reorder_attachments(SelectSeq(attachments, LAMBDA a : a.id # att_id))
       IN  /\ attachments' = remaining
           /\ selection_active' =
                  IF removed_att.source = "selection" THEN FALSE
                  ELSE selection_active
           /\ clipboard_active' =
                  IF removed_att.source = "clipboard"
                     /\ remaining_clipboard(remaining) = <<>>
                  THEN FALSE
                  ELSE clipboard_active
    /\ pb_last' = [op |-> "remove", arg |-> att_id]
    /\ UNCHANGED <<input_state, selection_visible, clipboard_visible,
                   text_field_value, pb_files>>
    /\ PbFrame

\* add_attachments([file]) from the file picker; a file of an unsupported
\* type is filtered out.
add_attachments(supported) ==
    /\ pb_ops < MaxOps
    /\ pb_files < MaxFiles
    /\ pb_ops' = pb_ops + 1
    /\ pb_files' = pb_files + 1
    /\ attachments' = reorder_attachments(
           IF supported
           THEN Append(attachments, [id |-> FileId(pb_files + 1), type |-> "file",
                                     content |-> "path", source |-> ""])
           ELSE attachments)
    /\ pb_last' = [op |-> "add_files", arg |-> FileId(pb_files + 1)]
    /\ UNCHANGED <<input_state, selection_active, clipboard_active,
                   selection_visible, clipboard_visible, text_field_value>>
    /\ PbFrame

\* The user edits the prompt text.
type_text(v) ==
    /\ pb_ops < MaxOps
    /\ text_field_value # v
    /\ text_field_value' = v
    /\ UNCHANGED <<attachments, input_state, selection_active, clipboard_active,
                   selection_visible, clipboard_visible, pb_last, pb_ops,
                   pb_files>>
    /\ PbFrame

\* _handle_submit_action: nothing to send, or send and clear.
handle_submit_action ==
    /\ pb_ops < MaxOps
    /\ pb_ops' = pb_ops + 1
    /\ IF Strip(text_field_value) = NoText /\ attachments = <<>>
       THEN UNCHANGED <<attachments, text_field_value>>
       ELSE attachments' = <<>> /\ text_field_value' = NoText
    /\ pb_last' = [op |-> "submit", arg |-> ""]
    /\ UNCHANGED <<input_state, selection_active, clipboard_active,
                   selection_visible, clipboard_visible, pb_files>>
    /\ PbFrame

PromptBarNext ==
    \/ \E st \in InputStates : refresh_sources(st)
    \/ click_selection
    \/ click_clipboard
    \/ \E att_id \in {ID_SELECTION_TEXT, ID_CLIPBOARD_TEXT, ID_CLIPBOARD_IMAGE}
                     \cup FileIds : handle_remove_attachment(att_id)
    \/ \E supported \in BOOLEAN : add_attachments(supported)
    \/ \E v \in {NoText, Blank, <<"h">>} : type_text(v)
    \/ handle_submit_action

\* ---------------------------------------------------- SystrayManager, Quit
\* (managers/systray.py, _on_quit_click, run by the systray thread).

\* The application builds the manager with app=self, after it has created
\* its hotkey_manager; the menu exists, so the icon does.
SystrayInit ==
    /\ systray_app = TRUE
    /\ systray_icon = TRUE
    /\ quit_pc = "idle"
    /\ quit_cleaned = "no"
    /\ quit_cleared = 0

\* A handler that never finds the hotkey manager.
QuitHasHotkeyManagerNever(app) == FALSE

\* "if self.app and hasattr(self.app, 'hotkey_manager')"
QuitHasHotkeyManager(app) == app

\* The user picks Quit in the systray menu.
quit_click ==
    /\ quit_pc = "idle"
    /\ quit_pc' = "cleanup"
    /\ UNCHANGED <<systray_app, systray_icon, quit_cleaned, quit_cleared>>
    /\ UNCHANGED <<winVars, hkVars>>
    /\ SysFrame

\* self.app.hotkey_manager.cleanup(), when the app is there (lines 226-229).
quit_cleanup ==
    /\ quit_pc = "cleanup"
    /\ IF QuitHasHotkeyManager(systray_app)
       THEN \E fails \in KbRaises :
              IF fails
              THEN /\ quit_cleaned' = "failed"
                   /\ UNCHANGED <<kb_hotkeys, hotkey_hook, toggle_callback,
                                  quit_cleared>>
              ELSE /\ kb_hotkeys' = AfterUnhookAll(kb_hotkeys)
                   /\ hotkey_hook' = ""
                   /\ toggle_callback' = FALSE
                   /\ quit_cleaned' = "done"
                   /\ quit_cleared' = Len(kb_hotkeys)
       ELSE UNCHANGED <<kb_hotkeys, hotkey_hook, toggle_callback, quit_cleaned,
                        quit_cleared>>
    /\ quit_pc' = "hide"
    /\ UNCHANGED <<systray_app, systray_icon>>
    /\ UNCHANGED <<HOTKEY_COMBINATION, hk_pc, hk_hotkey, hk_ret, kb_faulty>>
    /\ UNCHANGED winVars
    /\ SysFrame

\* The window is hidden; an exception goes to handle_error (lines 231-238).
quit_hide ==
    /\ quit_pc = "hide"
    /\ \E raises \in {"no", "assignment", "update"} :
          page_window_visible' =
              IF page /\ raises # "assignment" THEN FALSE ELSE page_window_visible
    /\ quit_pc' = "stop"
    /\ UNCHANGED <<clock, last_trigger_time, trigger_lock, window_visible, page,
                   on_show, on_hide, pc, toggle_log, events, pre_show, outcome,
                   op_failed, fires>>
    /\ UNCHANGED <<systray_app, systray_icon, quit_cleaned, quit_cleared>>
    /\ UNCHANGED hkVars
    /\ SysFrame

\* self.stop() (line 241): icon.stop(), whose exception leaves the handler.
quit_stop ==
    /\ quit_pc = "stop"
    /\ \/ /\ systray_icon' = FALSE
          /\ quit_pc' = "exit"
       \/ /\ systray_icon
          /\ quit_pc' = "aborted"
          /\ UNCHANGED systray_icon
    /\ UNCHANGED <<systray_app, quit_cleaned, quit_cleared>>
    /\ UNCHANGED <<winVars, hkVars>>
    /\ SysFrame

\* os._exit(0) (line 246).
quit_exit ==
    /\ quit_pc = "exit"
    /\ quit_pc' = "exited"
    /\ UNCHANGED <<systray_app, systray_icon, quit_cleaned, quit_cleared>>
    /\ UNCHANGED <<winVars, hkVars>>
    /\ SysFrame

process_exited == quit_pc = "exited"

QuitNext ==
    \/ quit_click
    \/ quit_cleanup
    \/ quit_hide
    \/ quit_stop
    \/ quit_exit

\* ------------------------------------------------ hotkey display and storage
\* (services/hotkey_capture.py, format_hotkey_for_display and
\* format_hotkey_for_storage).  A string is the sequence of its characters.

Lowers == <<"a", "b", "c", "d", "e", "f", "g", "h", "i", "j", "k", "l", "m", "n", "o", "p", "q", "r", "s", "t", "u", "v", "w", "x", "y", "z">>
Uppers == <<"A", "B", "C", "D", "E", "F", "G", "H", "I", "J", "K", "L", "M", "N", "O", "P", "Q", "R", "S", "T", "U", "V", "W", "X", "Y", "Z">>

IndexIn(seq, c) == CHOOSE i \in 1..Len(seq) : seq[i] = c
IsIn(seq, c) == \E i \in 1..Len(seq) : seq[i] = c

\* str.lower(), str.upper(), str.capitalize()
LowerChar(c) == IF IsIn(Uppers, c) THEN Lowers[IndexIn(Uppers, c)] ELSE c
UpperChar(c) == IF IsIn(Lowers, c) THEN Uppers[IndexIn(Lowers, c)] ELSE c
Lower(s) == [i \in 1..Len(s) |-> LowerChar(s[i])]
Upper(s) == [i \in 1..Len(s) |-> UpperChar(s[i])]
Capitalize(s) == IF s = <<>> THEN s ELSE <<UpperChar(s[1])>> \o Lower(Tail(s))

StartsWith(s, sep) == Len(s) >= Len(sep) /\ SubSeq(s, 1, Len(sep)) = sep

\* str.split(sep), with cur the part read so far.
RECURSIVE SplitAcc(_, _, _)
SplitAcc(s, sep, cur) ==
    IF s = <<>> THEN <<cur>>
    ELSE IF StartsWith(s, sep)
         THEN <<cur>> \o SplitAcc(SubSeq(s, Len(sep) + 1, Len(s)), sep, <<>>)
         ELSE SplitAcc(Tail(s), sep, Append(cur, Head(s)))

Split(s, sep) == SplitAcc(s, sep, <<>>)

\* sep.join(parts)
RECURSIVE Join(_, _)
Join(parts, sep) ==
    IF parts = <<>> THEN <<>>
    ELSE IF Len(parts) = 1 THEN parts[1]
    ELSE parts[1] \o sep \o Join(Tail(parts), sep)

ModifierNames == <<<<"c", "t", "r", "l">>, <<"a", "l", "t">>, <<"s", "h", "i", "f", "t">>, <<"w", "i", "n">>>>
ModifierWords == {ModifierNames[i] : i \in 1..Len(ModifierNames)} \cup {<<"w", "i", "n", "d", "o", "w", "s">>}

\* The entries of KEY_NAME_MAP for space, page up and add.
KEY_NAME_MAP ==
    [k \in {<<"s", "p", "a", "c", "e">>, <<"p", "a", "g", "e", " ", "u", "p">>, <<"a", "d", "d">>} |->
        IF k = <<"s", "p", "a", "c", "e">> THEN <<"S", "p", "a", "c", "e">>
        ELSE IF k = <<"p", "a", "g", "e", " ", "u", "p">> THEN <<"P", "a", "g", "e", "U", "p">>
        ELSE <<"N", "u", "m", "A", "d", "d">>]

NoneText == <<"N", "o", "n", "e">>

\* The main keys of the combinations that are formatted.
MainKeys == {<<"a">>, <<"f", "1">>, <<"s", "p", "a", "c", "e">>, <<"p", "a", "g", "e", " ", "u", "p">>, <<"1">>}

\* The canonical storage strings: modifiers in the order ctrl, alt, shift,
\* win, then one key, joined by "+".
CanonicalHotkey(mods, key) ==
    Join(SelectSeq(ModifierNames, LAMBDA m : m \in mods) \o <<key>>, <<"+">>)

CanonicalHotkeys ==
    {CanonicalHotkey(mods, key) :
        mods \in SUBSET {ModifierNames[i] : i \in 1..Len(ModifierNames)},
        key \in MainKeys}

DisplayPart(part) ==
    LET p == Lower(Strip(part))
    IN  IF p \in ModifierWords THEN Capitalize(p)
        ELSE IF p \in DOMAIN KEY_NAME_MAP THEN KEY_NAME_MAP[p]
        ELSE IF Len(p) = 1 THEN Upper(p)
        ELSE Capitalize(p)

format_hotkey_for_display(hotkey) ==
    IF hotkey = <<>> THEN NoneText
    ELSE LET parts == Split(hotkey, <<"+">>)
         IN  Join([i \in 1..Len(parts) |-> DisplayPart(parts[i])],
                  <<" ", "+", " ">>)

format_hotkey_for_storage(display_hotkey) ==
    IF display_hotkey = <<>> \/ display_hotkey = NoneText THEN <<>>
    ELSE LET parts == Split(display_hotkey, <<" ", "+", " ">>)
         IN  Join([i \in 1..Len(parts) |-> Lower(Strip(parts[i]))],
                  <<"+", " ">>)

FormatInit ==
    /\ fmt_pc = "stored"
    /\ fmt_hotkey = <<>>
    /\ fmt_display = <<>>
    /\ fmt_storage = <<>>

\* A stored combination is picked for display.
fmt_pick(s) ==
    /\ fmt_pc = "stored"
    /\ fmt_hotkey' = s
    /\ fmt_display' = <<>>
    /\ fmt_storage' = <<>>
    /\ fmt_pc' = "picked"
    /\ FmtFrame

fmt_display_step ==
    /\ fmt_pc = "picked"
    /\ fmt_display' = format_hotkey_for_display(fmt_hotkey)
    /\ fmt_pc' = "displayed"
    /\ UNCHANGED <<fmt_hotkey, fmt_storage>>
    /\ FmtFrame

fmt_storage_step ==
    /\ fmt_pc = "displayed"
    /\ fmt_storage' = format_hotkey_for_storage(fmt_display)
    /\ fmt_pc' = "stored"
    /\ UNCHANGED <<fmt_hotkey, fmt_display>>
    /\ FmtFrame

FormatNext ==
    \/ \E s \in CanonicalHotkeys \cup {<<>>} : fmt_pick(s)
    \/ fmt_display_step
    \/ fmt_storage_step

\* ------------------------------------------------------------ HotkeyCapture
\* (services/hotkey_capture.py) and the capture dialog's callbacks
\* (ui/dialogs/hotkey_dialog.py).  The keyboard library calls _on_key_event
\* from its listener thread, which may still deliver an event it had read
\* before the hook was removed.

MODIFIER_KEYS ==
    {<<"c", "t", "r", "l">>,
     <<"s", "h", "i", "f", "t">>,
     <<"a", "l", "t">>,
     <<"w", "i", "n", "d", "o", "w", "s">>,
     <<"l", "e", "f", "t", " ", "c", "t", "r", "l">>,
     <<"r", "i", "g", "h", "t", " ", "c", "t", "r", "l">>,
     <<"l", "e", "f", "t", " ", "s", "h", "i", "f", "t">>,
     <<"r", "i", "g", "h", "t", " ", "s", "h", "i", "f", "t">>,
     <<"l", "e", "f", "t", " ", "a", "l", "t">>,
     <<"r", "i", "g", "h", "t", " ", "a", "l", "t">>,
     <<"l", "e", "f", "t", " ", "w", "i", "n", "d", "o", "w", "s">>,
     <<"r", "i", "g", "h", "t", " ", "w", "i", "n", "d", "o", "w", "s">>,
     <<"m", "a", "j">>,
     <<"l", "e", "f", "t", " ", "m", "a", "j">>,
     <<"r", "i", "g", "h", "t", " ", "m", "a", "j">>,
     <<"c", "t", "r", "l", " ", "g", "a", "u", "c", "h", "e">>,
     <<"c", "t", "r", "l", " ", "d", "r", "o", "i", "t", "e">>,
     <<"a", "l", "t", " ", "g", "r">>}

\* The entries of SCANCODE_TO_KEY_NAME for F1 and the numpad decimal key.
SCANCODE_TO_KEY_NAME ==
    [c \in {59, 83} |-> IF c = 59 THEN <<"F", "1">> ELSE <<"D", "e", "c", "i", "m", "a", "l">>]

\* The keyboard events delivered: name, scan code, "down" or "up".
KeyStrokes ==
    {[name |-> <<"c", "t", "r", "l">>, scan_code |-> 29],
     [name |-> <<"r", "i", "g", "h", "t", " ", "s", "h", "i", "f", "t">>, scan_code |-> 54],
     [name |-> <<"a">>, scan_code |-> 30],
     [name |-> <<"f", "1">>, scan_code |-> 59]}

KeyEvents ==
    {[name |-> k.name, scan_code |-> k.scan_code, event_type |-> ty] :
        k \in KeyStrokes, ty \in {"down", "up"}}

is_modifier(key_name) == key_name \in MODIFIER_KEYS

\* _normalize_modifier: the left/right prefix goes, French names are mapped.
normalize_modifier(key_name) ==
    LET k == IF StartsWith(key_name, <<"l", "e", "f", "t", " ">>)
             THEN SubSeq(key_name, 6, Len(key_name))
             ELSE IF StartsWith(key_name, <<"r", "i", "g", "h", "t", " ">>)
             THEN SubSeq(key_name, 7, Len(key_name))
             ELSE key_name
    IN  IF k = <<"m", "a", "j">> THEN <<"s", "h", "i", "f", "t">>
        ELSE IF k = <<"a", "l", "t", " ", "g", "r">> THEN <<"a", "l", "t">>
        ELSE IF k \in {<<"c", "t", "r", "l", " ", "g", "a", "u", "c", "h", "e">>, <<"c", "t", "r", "l", " ", "d", "r", "o", "i", "t", "e">>} THEN <<"c", "t", "r", "l">>
        ELSE k

normalize_key_name(key_name) ==
    IF key_name \in DOMAIN KEY_NAME_MAP THEN KEY_NAME_MAP[key_name]
    ELSE IF Len(key_name) = 1 THEN Upper(key_name)
    ELSE Capitalize(key_name)

\* The main key a non-modifier key-down records.
MainKeyOf(event) ==
    IF event.scan_code \in DOMAIN SCANCODE_TO_KEY_NAME
    THEN SCANCODE_TO_KEY_NAME[event.scan_code]
    ELSE normalize_key_name(Lower(event.name))

\* The modifiers in the order ctrl, alt, shift, windows, under the given names.
OrderedModifiers(mods, names) ==
    LET all == <<<<"c", "t", "r", "l">>, <<"a", "l", "t">>, <<"s", "h", "i", "f", "t">>, <<"w", "i", "n", "d", "o", "w", "s">>>>
        idx == SelectSeq(<<1, 2, 3, 4>>, LAMBDA i : all[i] \in mods)
    IN  [i \in 1..Len(idx) |-> names[idx[i]]]

\* A final result that never carries a main key.
MainPartNone(key) == <<>>

\* "if self._main_key: parts.append(self._main_key.lower())"
MainPart(key) == IF Truthy(key) THEN <<Lower(key.text)>> ELSE <<>>

get_current_hotkey(mods, key) ==
    IF mods = {} /\ ~Truthy(key) THEN <<>>
    ELSE Join(OrderedModifiers(mods, <<<<"c", "t", "r", "l">>, <<"a", "l", "t">>, <<"s", "h", "i", "f", "t">>, <<"w", "i", "n">>>>)
                  \o MainPart(key), <<"+">>)

get_display_hotkey(mods, key) ==
    IF mods = {} /\ ~Truthy(key) THEN NoneText
    ELSE Join(OrderedModifiers(mods, <<<<"C", "t", "r", "l">>, <<"A", "l", "t">>, <<"S", "h", "i", "f", "t">>, <<"W", "i", "n">>>>)
                  \o (IF Truthy(key) THEN <<key.text>> ELSE <<>>),
              <<" ", "+", " ">>)

\* on_key_update's conversion of the display string (dialog, lines 116-117).
CapturedFrom(display_hotkey) ==
    LET parts == Split(display_hotkey, <<" ", "+", " ">>)
        low == [i \in 1..Len(parts) |-> Lower(Strip(parts[i]))]
    IN  IF low[1] # <<>> THEN Str(Join(low, <<"+">>)) ELSE None

NoResult == [action |-> "none", hotkey |-> None]

\* HotkeyCapture.__init__ and the dialog before it has shown anything.
CaptureInit ==
    /\ kb_hooks = {}
    /\ cap_hook = 0
    /\ current_keys = {}
    /\ modifiers = {}
    /\ main_key = None
    /\ cap_on_update = FALSE
    /\ is_capturing = FALSE
    /\ cap_ret = None
    /\ cap_last = [op |-> "init", arg |-> ""]
    /\ cap_sessions = 0
    /\ display_text = NoneText
    /\ captured_hotkey = None
    /\ dlg_result = NoResult

\* A stop that leaves the hook in the keyboard library.
AfterUnhookKeep(hooks, hook) == hooks

\* "if self._hook: keyboard.unhook(self._hook)"
AfterUnhook(hooks, hook) == IF hook # 0 THEN hooks \ {hook} ELSE hooks

\* An event handler without its "if not self._is_capturing: return".
HandlesEventAlways(capturing) == TRUE

\* _on_key_event's guard.
HandlesEvent(capturing) == capturing

\* start_capture(on_update), with the stop_capture it makes first when a
\* session is open.
StartCapture ==
    /\ cap_sessions < MaxSessions
    /\ cap_sessions' = cap_sessions + 1
    /\ cap_hook' = cap_sessions + 1
    /\ kb_hooks' = (IF is_capturing THEN AfterUnhook(kb_hooks, cap_hook)
                    ELSE kb_hooks) \cup {cap_sessions + 1}
    /\ cap_on_update' = TRUE
    /\ current_keys' = {}
    /\ modifiers' = {}
    /\ main_key' = None
    /\ is_capturing' = TRUE
    /\ cap_last' = [op |-> "start",
                    arg |-> IF is_capturing THEN "restart" ELSE ""]
    /\ UNCHANGED <<cap_ret, display_text, captured_hotkey, dlg_result>>

start_capture == StartCapture /\ CapFrame

\* What stop_capture does to the capture and what it returns.
StopCapture ==
    /\ kb_hooks' = AfterUnhook(kb_hooks, cap_hook)
    /\ cap_hook' = 0
    /\ is_capturing' = FALSE
    /\ cap_ret' = Str(get_current_hotkey(modifiers, main_key))
    /\ current_keys' = {}
    /\ modifiers' = {}
    /\ main_key' = None
    /\ cap_on_update' = FALSE

stop_capture ==
    /\ StopCapture
    /\ cap_last' = [op |-> "stop", arg |-> ""]
    /\ UNCHANGED <<cap_sessions, display_text, captured_hotkey, dlg_result>>
    /\ CapFrame

\* _on_key_event(event); on a key-down the listener, the dialog's
\* on_key_update, gets the display string.
on_key_event(event) ==
    /\ cap_last' = [op |-> "event",
                    arg |-> IF is_capturing THEN event.event_type ELSE "ignored"]
    /\ IF ~HandlesEvent(is_capturing)
       THEN UNCHANGED <<current_keys, modifiers, main_key, display_text,
                        captured_hotkey>>
       ELSE LET key_name == Lower(event.name)
                is_mod == is_modifier(key_name)
            IN  IF event.event_type = "down"
                THEN LET mods == IF is_mod
                                 THEN modifiers \cup {normalize_modifier(key_name)}
                                 ELSE modifiers
                         key == IF is_mod THEN main_key
                                ELSE Str(MainKeyOf(event))
                     IN  /\ modifiers' = mods
                         /\ main_key' = key
                         /\ current_keys' = current_keys \cup {key_name}
                         /\ IF cap_on_update
                            THEN /\ display_text' = get_display_hotkey(mods, key)
                                 /\ captured_hotkey' =
                                       CapturedFrom(get_display_hotkey(mods, key))
                            ELSE UNCHANGED <<display_text, captured_hotkey>>
                ELSE /\ current_keys' = current_keys \ {key_name}
                     /\ modifiers' = IF is_mod
                                     THEN modifiers \ {normalize_modifier(key_name)}
                                     ELSE modifiers
                     /\ UNCHANGED <<main_key, display_text, captured_hotkey>>
    /\ UNCHANGED <<kb_hooks, cap_hook, cap_on_update, is_capturing, cap_ret,
                   cap_sessions, dlg_result>>
    /\ CapFrame

\* The dialog's Save: close_dialog() stops the capture, then on_result gets
\* HotkeyDialogResult("save", captured_hotkey).
on_save ==
    /\ is_capturing
    /\ StopCapture
    /\ dlg_result' = [action |-> "save", hotkey |-> captured_hotkey]
    /\ cap_last' = [op |-> "save", arg |-> ""]
    /\ UNCHANGED <<cap_sessions, display_text, captured_hotkey>>
    /\ CapFrame

CaptureNext ==
    \/ start_capture
    \/ stop_capture
    \/ \E event \in KeyEvents : on_key_event(event)
    \/ on_save

\* ----------------------------------------------------------------- EventBus
\* (core/event_bus.py).  _listeners is a defaultdict: reading the list of an
\* event name creates its (empty) entry.

EventNames == {"window_shown", "language_changed"}
Callbacks == {"cb1", "cb2", "cb3"}

\* self._listeners[event_type]
ListenersOf(l, e) == IF e \in DOMAIN l THEN l[e] ELSE <<>>

\* self._listeners[event_type] = v
WithListeners(l, e, v) ==
    [x \in DOMAIN l \cup {e} |-> IF x = e THEN v ELSE l[x]]

\* An "on" that never finds the callback in the list.
SubscribedNever(cbs, cb) == FALSE

\* "callback in self._listeners[event_type]"
Subscribed(cbs, cb) == \E i \in 1..Len(cbs) : cbs[i] = cb

\* list.remove(callback): the first occurrence goes.
RECURSIVE Removed(_, _)
Removed(cbs, cb) ==
    IF cbs = <<>> THEN <<>>
    ELSE IF Head(cbs) = cb THEN Tail(cbs)
    ELSE <<Head(cbs)>> \o Removed(Tail(cbs), cb)

\* A loop that an exception leaves.
RemainingAbort(cbs, raised) == IF raised THEN <<>> ELSE Tail(cbs)

\* The for loop of emit goes on with the next callback, whether the call
\* returned or raised: the try/except is inside the loop (lines 54-61).
Remaining(cbs, raised) == Tail(cbs)

\* The callbacks emit invokes, in order, when those of failing raise.
RECURSIVE Invokes(_, _)
Invokes(cbs, failing) ==
    IF cbs = <<>> THEN <<>>
    ELSE <<Head(cbs)>> \o Invokes(Remaining(cbs, Head(cbs) \in failing), failing)

BusCall(op, e, cb, invoked, failing) ==
    [op |-> op, event |-> e, callback |-> cb, invoked |-> invoked,
     failing |-> failing]

\* __init__: no entry.
EventBusInit ==
    /\ listeners = <<>>
    /\ bus_last = BusCall("init", "", "", <<>>, {})

bus_on(e, cb) ==
    /\ listeners' =
          WithListeners(listeners, e,
              IF Subscribed(ListenersOf(listeners, e), cb)
              THEN ListenersOf(listeners, e)
              ELSE Append(ListenersOf(listeners, e), cb))
    /\ bus_last' = BusCall("on", e, cb, <<>>, {})
    /\ BusFrame

bus_off(e, cb) ==
    /\ listeners' =
          WithListeners(listeners, e,
              IF Subscribed(ListenersOf(listeners, e), cb)
              THEN Removed(ListenersOf(listeners, e), cb)
              ELSE ListenersOf(listeners, e))
    /\ bus_last' = BusCall("off", e, cb, <<>>, {})
    /\ BusFrame

\* emit(e), with the callbacks of failing raising an Exception.
bus_emit(e, failing) ==
    /\ bus_last' =
          BusCall("emit", e, "",
                  IF e \in DOMAIN listeners
                  THEN Invokes(listeners[e], failing) ELSE <<>>,
                  failing)
    /\ UNCHANGED listeners
    /\ BusFrame

\* clear(e)
bus_clear_event(e) ==
    /\ listeners' = WithListeners(listeners, e, <<>>)
    /\ bus_last' = BusCall("clear", e, "", <<>>, {})
    /\ BusFrame

\* clear()
bus_clear_all ==
    /\ listeners' = <<>>
    /\ bus_last' = BusCall("clear", "", "", <<>>, {})
    /\ BusFrame

EventBusNext ==
    \/ \E e \in EventNames, cb \in Callbacks : bus_on(e, cb)
    \/ \E e \in EventNames, cb \in Callbacks : bus_off(e, cb)
    \/ \E e \in EventNames, failing \in SUBSET Callbacks : bus_emit(e, failing)
    \/ \E e \in EventNames : bus_clear_event(e)
    \/ bus_clear_all

\* ------------------------------------------------------------ ConfigManager
\* (core/config/manager.py, core/utils/json_helpers.py).  One ConfigManager
\* runs at a time (app.py:53); a new one is a restart of the application.
\* The file system works: open and write do not fail.

PyBool(v) == [t |-> "bool", v |-> v]
PyStr(v) == [t |-> "str", v |-> v]

\* The values the application stores: booleans and strings.
ConfigSetValues == {PyBool("True"), PyBool("False"), PyStr("en")}

\* json.dump of a value: bool -> true/false, str -> string, list and tuple
\* -> array.
json_dump(value) ==
    IF value.t = "bool"
    THEN [j |-> "boolean", v |-> IF value.v = "True" THEN "true" ELSE "false"]
    ELSE IF value.t = "str" THEN [j |-> "string", v |-> value.v]
    ELSE [j |-> "array", v |-> value.v]

\* json.load of a value: true/false -> bool, string -> str, array -> list.
json_load(jv) ==
    IF jv.j = "boolean"
    THEN PyBool(IF jv.v = "true" THEN "True" ELSE "False")
    ELSE IF jv.j = "string" THEN PyStr(jv.v)
    ELSE [t |-> "list", v |-> jv.v]

DumpObject(d) == [k \in DOMAIN d |-> json_dump(d[k])]
LoadObject(o) == [k \in DOMAIN o |-> json_load(o[k])]

\* DEFAULT_CONFIG, read from the package's config.json: two of its keys.
DEFAULT_CONFIG ==
    [k \in {"dark_mode", "language"} |->
        IF k = "dark_mode" THEN PyBool("False") ELSE PyStr("fr")]

\* A key that a later version of the application wrote to the file.
FileKeys == {"dark_mode", "future_key"}
ConfigKeys == DOMAIN DEFAULT_CONFIG \cup FileKeys

NoFile == [exists |-> FALSE, data |-> <<>>]
FileWith(o) == [exists |-> TRUE, data |-> o]

\* The files a ConfigManager may find: none, or an object over some keys.
InitialFiles ==
    {NoFile} \cup
    {FileWith(DumpObject(d)) :
        d \in UNION {[S -> ConfigSetValues] : S \in SUBSET FileKeys}}

\* A load that takes the file's object alone.
UpdatedSavedOnly(d, saved) == saved

\* dict.update(saved)
Updated(d, saved) ==
    [k \in DOMAIN d \cup DOMAIN saved |->
        IF k \in DOMAIN saved THEN saved[k] ELSE d[k]]

\* A save that does not reach the file.
SavedNowhere(file, d) == file

\* save_json_file(self._config_file, self._config)
Saved(file, d) == FileWith(DumpObject(d))

\* load(), on the copy of the defaults: what _config and the file become.
Loaded(file) ==
    IF file.exists
    THEN [config |-> IF DOMAIN file.data # {}
                     THEN Updated(DEFAULT_CONFIG, LoadObject(file.data))
                     ELSE DEFAULT_CONFIG,
          file |-> file]
    ELSE [config |-> DEFAULT_CONFIG, file |-> Saved(file, DEFAULT_CONFIG)]

\* name.lower() of the attribute names assigned.
AttrNames == {"DARK_MODE", "LANGUAGE", "FUTURE_KEY", "PAGE_TITLE"}
AttrKey(name) ==
    IF name = "DARK_MODE" THEN "dark_mode"
    ELSE IF name = "LANGUAGE" THEN "language"
    ELSE IF name = "FUTURE_KEY" THEN "future_key"
    ELSE "page_title"

ConfigCall(op, key, found) == [op |-> op, key |-> key, found |-> found]

\* No ConfigManager yet; the file is whatever earlier runs left.
ConfigInit ==
    /\ config_file \in InitialFiles
    /\ config = <<>>
    /\ cfg_attrs = {}
    /\ cfg_alive = FALSE
    /\ cfg_written = <<>>
    /\ cfg_last = ConfigCall("none", "", NoFile)

\* ConfigManager(): _config = DEFAULT_CONFIG.copy(); load()
config_new ==
    /\ config' = Loaded(config_file).config
    /\ config_file' = Loaded(config_file).file
    /\ cfg_attrs' = {}
    /\ cfg_alive' = TRUE
    /\ cfg_last' = ConfigCall("new", "", config_file)
    /\ UNCHANGED cfg_written
    /\ CfgFrame

\* set(key, value): self._config[key] = value; self.save()
ConfigSet(key, value) ==
    /\ config' = Updated(config, [k \in {key} |-> value])
    /\ config_file' = Saved(config_file, Updated(config, [k \in {key} |-> value]))
    /\ cfg_written' = Updated(cfg_written, [k \in {key} |-> value])

config_set(key, value) ==
    /\ cfg_alive
    /\ ConfigSet(key, value)
    /\ cfg_last' = ConfigCall("set", key, config_file)
    /\ UNCHANGED <<cfg_attrs, cfg_alive>>
    /\ CfgFrame

\* __setattr__(name, value) for a public name: set() when the lower-cased
\* name is a key of _config, a plain attribute otherwise.
config_setattr(name, value) ==
    /\ cfg_alive
    /\ IF AttrKey(name) \in DOMAIN config
       THEN /\ ConfigSet(AttrKey(name), value)
            /\ UNCHANGED cfg_attrs
       ELSE /\ cfg_attrs' = cfg_attrs \cup {name}
            /\ UNCHANGED <<config, config_file, cfg_written>>
    /\ cfg_last' = ConfigCall("setattr", AttrKey(name), config_file)
    /\ UNCHANGED cfg_alive
    /\ CfgFrame

ConfigNext ==
    \/ config_new
    \/ \E key \in ConfigKeys, value \in ConfigSetValues : config_set(key, value)
    \/ \E name \in AttrNames, value \in ConfigSetValues :
          config_setattr(name, value)

\* ------------------------------------------------- the pynput HotkeyManager
\* (core/hotkey_manager.py): the listener's on_key_press / on_key_release
\* and _handle_hotkey_trigger.  Time is counted in half seconds.

\* self.MIN_TRIGGER_INTERVAL = 1.0 and release_lock's time.sleep(0.5)
LISTENER_MIN_TRIGGER_INTERVAL == 2
LOCK_COOLDOWN == 1

\* pynput keys: Key.space, Key.ctrl_l, Key.ctrl_r and a character key.
PynputKeys == {"space", "ctrl_l", "ctrl_r", "a"}
ResetKeys == {"space", "ctrl_l", "ctrl_r"}

ListenerEvent(type, key, fired, ran) ==
    [type |-> type, key |-> key, fired |-> fired, ran |-> ran]

\* __init__
ListenerInit ==
    /\ current_pressed_keys = {}
    /\ trigger_fired_for_current_press = FALSE
    /\ hotkey_processing = FALSE
    /\ lsn_last_trigger_time = 0
    /\ lsn_clock = LISTENER_MIN_TRIGGER_INTERVAL
    /\ lsn_locked_at = 0
    /\ lsn_cycle_fires = 0
    /\ lsn_last = ListenerEvent("none", "", FALSE, FALSE)

lsn_tick ==
    /\ lsn_clock < MaxClock
    /\ lsn_clock' = lsn_clock + 1
    /\ lsn_last' = ListenerEvent("tick", "", FALSE, FALSE)
    /\ UNCHANGED <<current_pressed_keys, trigger_fired_for_current_press,
                   hotkey_processing, lsn_last_trigger_time, lsn_locked_at,
                   lsn_cycle_fires>>
    /\ LsnFrame

\* A listener that forgets it has fired.
AlreadyFiredNever(flag) == FALSE

\* "if not self.trigger_fired_for_current_press"
AlreadyFired(flag) == flag

\* Whether the key-down is Space with a Ctrl key held (lines 54-55).
IsHotkeyPress(key, pressed) ==
    key = "space" /\ ("ctrl_l" \in pressed \/ "ctrl_r" \in pressed)

\* _handle_hotkey_trigger runs the callback when it gets the lock and the
\* last trigger is at least MIN_TRIGGER_INTERVAL old.
RunsCallback(locked, now, last) ==
    ~locked /\ ~(now - last < LISTENER_MIN_TRIGGER_INTERVAL)

\* on_key_press(key), with the _handle_hotkey_trigger it calls.
on_key_press(key) ==
    LET pressed == current_pressed_keys \cup {key}
        triggers == IsHotkeyPress(key, pressed)
                       /\ ~AlreadyFired(trigger_fired_for_current_press)
        runs == triggers /\ RunsCallback(hotkey_processing, lsn_clock,
                                      lsn_last_trigger_time)
    IN  /\ current_pressed_keys' = pressed
        /\ trigger_fired_for_current_press' =
              (triggers \/ trigger_fired_for_current_press)
        /\ lsn_cycle_fires' = IF triggers /\ lsn_cycle_fires < 2
                              THEN lsn_cycle_fires + 1 ELSE lsn_cycle_fires
        /\ lsn_last_trigger_time' = IF runs THEN lsn_clock
                                    ELSE lsn_last_trigger_time
        \* the lock is taken when free; the finally clause starts the
        \* thread that releases it
        /\ hotkey_processing' = (triggers \/ hotkey_processing)
        /\ lsn_locked_at' = IF triggers /\ ~hotkey_processing THEN lsn_clock
                            ELSE lsn_locked_at
        /\ lsn_last' = ListenerEvent("press", key, triggers, runs)
        /\ UNCHANGED lsn_clock
        /\ LsnFrame

\* A release that clears the flag whatever the key.
ResetsFlagAlways(key) == TRUE

\* "if key == Key.space or key == Key.ctrl_l or key == Key.ctrl_r"
ResetsFlag(key) == key \in ResetKeys

on_key_release(key) ==
    /\ current_pressed_keys' = current_pressed_keys \ {key}
    /\ trigger_fired_for_current_press' =
          IF ResetsFlag(key) THEN FALSE ELSE trigger_fired_for_current_press
    /\ lsn_cycle_fires' = IF key \in ResetKeys THEN 0 ELSE lsn_cycle_fires
    /\ lsn_last' = ListenerEvent("release", key, FALSE, FALSE)
    /\ UNCHANGED <<hotkey_processing, lsn_last_trigger_time, lsn_clock,
                   lsn_locked_at>>
    /\ LsnFrame

\* release_lock: time.sleep(0.5); self.hotkey_processing.release()
release_lock ==
    /\ hotkey_processing
    /\ lsn_clock >= lsn_locked_at + LOCK_COOLDOWN
    /\ hotkey_processing' = FALSE
    /\ lsn_last' = ListenerEvent("unlock", "", FALSE, FALSE)
    /\ UNCHANGED <<current_pressed_keys, trigger_fired_for_current_press,
                   lsn_last_trigger_time, lsn_clock, lsn_locked_at,
                   lsn_cycle_fires>>
    /\ LsnFrame

ListenerNext ==
    \/ lsn_tick
    \/ \E key \in PynputKeys : on_key_press(key)
    \/ \E key \in PynputKeys : on_key_release(key)
    \/ release_lock

\* on_closing has not been called.
CloseInit ==
    /\ close_ret = ""
    /\ hide_raised = FALSE

\* ------------------------------------------- the hotkey dialog in the settings
\* (ui/dialogs/hotkey_dialog.py, ui/app.py _on_hotkey_click and
\* _on_hotkey_dialog_result; ui/views/settings_view.py has the same code).
\* The combination the capture yields is an input here.

DEFAULT_HOTKEY == "ctrl+space"

\* The dialog is closed; the startup registration has been done.
DialogInit ==
    /\ dlg_pc = "closed"
    /\ dlg_hotkey = ""
    /\ dlg_action = "none"
    /\ dlg_raised = FALSE
    /\ setup_pending = 0
    /\ dlg_opens = 0

\* The methods HotkeyManager defines (managers/hotkey.py, lines 36-129).
HotkeyManagerMethods == {"register", "register_delayed", "unregister", "cleanup"}

\* _on_hotkey_click: show_hotkey_capture_dialog(current_hotkey, ...) sets
\* captured_hotkey = current_hotkey and calls hotkey_manager.unregister().
hotkey_click ==
    /\ dlg_pc = "closed"
    /\ HkSequential
    /\ dlg_opens < MaxDialogs
    /\ dlg_opens' = dlg_opens + 1
    /\ dlg_pc' = "open"
    /\ dlg_hotkey' = HOTKEY_COMBINATION
    /\ Unregister("ui")
    /\ StartCapture
    /\ UNCHANGED <<dlg_action, dlg_raised, setup_pending>>
    /\ DlgFrame

\* on_key_update: captured_hotkey becomes the combination pressed.
dlg_key_update(c) ==
    /\ dlg_pc = "open"
    /\ dlg_hotkey' = c
    /\ UNCHANGED <<dlg_pc, dlg_action, dlg_raised, setup_pending, dlg_opens>>
    /\ UNCHANGED hkVars
    /\ UNCHANGED capVars
    /\ DlgFrame

\* on_reset: captured_hotkey = DEFAULT_HOTKEY
dlg_reset ==
    /\ dlg_pc = "open"
    /\ dlg_hotkey' = DEFAULT_HOTKEY
    /\ UNCHANGED <<dlg_pc, dlg_action, dlg_raised, setup_pending, dlg_opens>>
    /\ UNCHANGED hkVars
    /\ UNCHANGED capVars
    /\ DlgFrame

\* on_delete: captured_hotkey = None
dlg_delete ==
    /\ dlg_pc = "open"
    /\ dlg_hotkey' = ""
    /\ UNCHANGED <<dlg_pc, dlg_action, dlg_raised, setup_pending, dlg_opens>>
    /\ UNCHANGED hkVars
    /\ UNCHANGED capVars
    /\ DlgFrame

\* on_cancel, then _on_hotkey_dialog_result("cancel"): register_delayed when
\* a combination is configured (app.py, lines 592-597).
dlg_cancel ==
    /\ dlg_pc = "open"
    /\ dlg_pc' = "closed"
    /\ dlg_action' = "cancel"
    /\ dlg_raised' = FALSE
    /\ setup_pending' = IF HOTKEY_COMBINATION # "" THEN setup_pending + 1
                        ELSE setup_pending
    /\ UNCHANGED <<dlg_hotkey, dlg_opens>>
    /\ UNCHANGED hkVars
    /\ StopCapture
    /\ cap_last' = [op |-> "cancel", arg |-> ""]
    /\ UNCHANGED <<cap_sessions, display_text, captured_hotkey, dlg_result>>
    /\ DlgFrame

\* on_save, then _on_hotkey_dialog_result("save", captured_hotkey): the
\* configuration takes the new combination, and for a non-empty one
\* hotkey_manager.reregister(...) is called (app.py, lines 607-615), a
\* method HotkeyManager does not have: the call raises AttributeError.
dlg_save ==
    /\ dlg_pc = "open"
    /\ dlg_pc' = "closed"
    /\ dlg_action' = "save"
    /\ HOTKEY_COMBINATION' = dlg_hotkey
    /\ dlg_raised' = (dlg_hotkey # "" /\ "reregister" \notin HotkeyManagerMethods)
    /\ UNCHANGED <<dlg_hotkey, setup_pending, dlg_opens>>
    /\ UNCHANGED <<kb_hotkeys, hotkey_hook, toggle_callback, hk_pc, hk_hotkey,
                   hk_ret, kb_faulty>>
    /\ StopCapture
    /\ cap_last' = [op |-> "save", arg |-> ""]
    /\ UNCHANGED <<cap_sessions, display_text, captured_hotkey, dlg_result>>
    /\ DlgFrame

\* delayed_setup's sleep ends: success = self.register(toggle_callback)
delayed_setup ==
    /\ setup_pending > 0
    /\ HkSequential
    /\ setup_pending' = setup_pending - 1
    /\ RegisterBegin("setup")
    /\ UNCHANGED <<dlg_pc, dlg_hotkey, dlg_action, dlg_raised, dlg_opens>>
    /\ UNCHANGED capVars
    /\ DlgFrame

\* keyboard.unhook_all() removes every hook of the library: the bindings
\* and the handlers keyboard.hook installed.
AfterUnhookAllHooks(hooks) == {}

\* The hook table after a register step that calls unhook_all.
SetupUnhooks(fails) ==
    /\ kb_hooks' = IF fails THEN kb_hooks ELSE AfterUnhookAllHooks(kb_hooks)
    /\ UNCHANGED <<cap_hook, current_keys, modifiers, main_key, cap_on_update,
                   is_capturing, cap_ret, cap_last, cap_sessions, display_text,
                   captured_hotkey, dlg_result>>
    /\ UNCHANGED dlgVars
    /\ DlgFrame

\* The delayed registration, hotkey disabled: self.cleanup()
setup_cleanup ==
    \E fails \in KbRaises : RegisterCleanup("setup", fails) /\ SetupUnhooks(fails)

\* The delayed registration: keyboard.unhook_all()
setup_unhook ==
    \E fails \in KbRaises : RegisterUnhook("setup", fails) /\ SetupUnhooks(fails)

DialogNext ==
    \/ hotkey_click
    \/ dlg_reset
    \/ dlg_delete
    \/ \E c \in ValidCombos : dlg_key_update(c)
    \/ dlg_cancel
    \/ dlg_save
    \/ delayed_setup
    \/ setup_cleanup
    \/ setup_unhook
    \/ register_add("setup")
    \/ register_set("setup")

\* ------------------------------------------- EventBus.emit, listener by listener
\* "for callback in self._listeners[event_type]" iterates over the list
\* itself: the iterator holds an index into the list the callbacks may
\* change meanwhile with on and off.

EmitInit ==
    /\ emit_event = ""
    /\ emit_index = 0
    /\ emit_invoked = <<>>
    /\ emit_start = <<>>
    /\ emit_removed = {}

\* What a callback does to the bus while it runs.
CallbackActs ==
    {[op |-> "none", cb |-> ""]} \cup [op : {"on", "off"}, cb : Callbacks]

\* The event's list after a callback that did act.
AfterCallback(cbs, act) ==
    IF act.op = "on"
    THEN IF Subscribed(cbs, act.cb) THEN cbs ELSE Append(cbs, act.cb)
    ELSE IF act.op = "off"
    THEN IF Subscribed(cbs, act.cb) THEN Removed(cbs, act.cb) ELSE cbs
    ELSE cbs

\* emit(e) is entered; an event without entry returns at once.
emit_begin(e) ==
    /\ emit_event = ""
    /\ e \in DOMAIN listeners
    /\ emit_event' = e
    /\ emit_index' = 0
    /\ emit_invoked' = <<>>
    /\ emit_start' = listeners[e]
    /\ emit_removed' = {}
    /\ bus_last' = BusCall("emit", e, "", <<>>, {})
    /\ UNCHANGED listeners
    /\ EmitFrame

\* The iterator yields the next callback and the callback runs.
emit_deliver(act) ==
    /\ emit_event # ""
    /\ emit_index < Len(listeners[emit_event])
    /\ LET cb == listeners[emit_event][emit_index + 1]
       IN  /\ emit_invoked' = Append(emit_invoked, cb)
           /\ bus_last' = [bus_last EXCEPT !.invoked = Append(emit_invoked, cb),
                                           !.callback = cb]
    /\ emit_index' = emit_index + 1
    /\ listeners' = [listeners EXCEPT
                        ![emit_event] = AfterCallback(@, act)]
    /\ emit_removed' =
          IF act.op = "off" /\ Subscribed(listeners[emit_event], act.cb)
          THEN emit_removed \cup {act.cb} ELSE emit_removed
    /\ UNCHANGED <<emit_event, emit_start>>
    /\ EmitFrame

\* The iterator is exhausted: emit returns.
emit_end ==
    /\ emit_event # ""
    /\ emit_index >= Len(listeners[emit_event])
    /\ emit_event' = ""
    /\ emit_index' = 0
    /\ emit_invoked' = <<>>
    /\ emit_start' = <<>>
    /\ emit_removed' = {}
    /\ bus_last' = [bus_last EXCEPT !.op = "emitted"]
    /\ UNCHANGED listeners
    /\ EmitFrame

\* on and off called between two emits.
subscribe(e, cb) == emit_event = "" /\ bus_on(e, cb)
unsubscribe(e, cb) == emit_event = "" /\ bus_off(e, cb)

EmitNext ==
    \/ \E e \in EventNames, cb \in Callbacks : subscribe(e, cb)
    \/ \E e \in EventNames, cb \in Callbacks : unsubscribe(e, cb)
    \/ \E e \in EventNames : emit_begin(e)
    \/ \E act \in CallbackActs : emit_deliver(act)
    \/ emit_end

\* ------------------------------------------------------------ specifications

\* A component that a specification leaves alone stays as constructed by
\* the application: a page and no callbacks (app.py), the default hotkey.
WindowManagerParked == WindowManagerInit /\ page /\ ~on_show /\ ~on_hide
HotkeyManagerParked ==
    HotkeyManagerInit /\ HOTKEY_COMBINATION = "ctrl+space" /\ ~kb_faulty
InputSourceParked == InputSourceInit /\ platform_system = "Windows"
ConfigParked == ConfigInit /\ config_file = NoFile
Parked ==
    /\ InputSourceParked /\ PromptBarInit /\ SystrayInit /\ FormatInit
    /\ ConfigParked /\ EventBusInit /\ CaptureInit /\ ListenerInit
    /\ CloseInit /\ DialogInit /\ EmitInit

Init == WindowManagerInit /\ WebviewInit /\ HotkeyManagerParked /\ Parked

\* The whole window pipeline: hotkey threads, the UI thread and the systray.
Next ==
    \/ Tick
    \/ \E t \in WinThreads : ToggleStep(t)
    \/ ui_hide_window(UiThread)
    \/ systray_settings_click
    \/ show_about

Spec == Init /\ [][Next]_vars

\* The hotkey threads alone: nothing but toggle_window touches the window.
NextToggle ==
    \/ Tick
    \/ \E t \in HotkeyThreads : ToggleStep(t)

SpecToggle == Init /\ [][NextToggle]_vars

\* The pywebview WindowManager under any sequence of show/hide calls.
InitWebview ==
    WindowManagerParked /\ WebviewInit /\ HotkeyManagerParked /\ Parked

NextWebview == WebviewNext

SpecWebview == InitWebview /\ [][NextWebview]_vars

\* The same, with the threads that were started running to their end.
SpecWebviewFair ==
    SpecWebview /\ \A t \in WvThreads : WF_vars(WebviewStep(t))

\* HotkeyManager under any sequence of register / unregister / cleanup calls.
InitHotkey ==
    /\ WindowManagerParked /\ WebviewInit /\ Parked
    /\ HotkeyManagerInit /\ ~kb_faulty

NextHotkey == HotkeyNext

SpecHotkey == InitHotkey /\ [][NextHotkey]_vars

\* HotkeyManager over a keyboard library whose calls may raise.
InitHotkeyFaulty ==
    /\ WindowManagerParked /\ WebviewInit /\ Parked
    /\ HotkeyManagerInit /\ kb_faulty

NextHotkeyFaulty == HotkeyNext

SpecHotkeyFaulty == InitHotkeyFaulty /\ [][NextHotkeyFaulty]_vars

\* Registrations that overlap: a register_delayed thread next to another
\* register call, each at any point of register.
NextHotkeyRace ==
    \/ \E c \in ConfigValues : hk_set_config(c)
    \/ \E t \in HkThreads :
         \/ register_begin(t)
         \/ register_cleanup(t)
         \/ register_unhook(t)
         \/ register_add(t)
         \/ register_set(t)

SpecHotkeyRace == InitHotkey /\ [][NextHotkeyRace]_vars

\* get_selection_text under any clipboard, selection and failing OS calls.
InitClip ==
    /\ WindowManagerParked /\ WebviewInit /\ HotkeyManagerParked
    /\ InputSourceInit /\ PromptBarInit /\ SystrayInit /\ FormatInit
    /\ ConfigParked /\ EventBusInit /\ CaptureInit /\ ListenerInit
    /\ CloseInit /\ DialogInit /\ EmitInit

NextClip == InputSourceNext

SpecClip == InitClip /\ [][NextClip]_vars

\* A call that has been entered goes on: nothing but the call's own thread
\* takes its steps.
SpecClipFair == SpecClip /\ WF_vars(InputSourceStep)

\* The PromptBar under any sequence of refreshes and user operations.
InitPrompt ==
    /\ WindowManagerParked /\ WebviewInit /\ HotkeyManagerParked
    /\ InputSourceParked /\ PromptBarInit /\ SystrayInit /\ FormatInit
    /\ ConfigParked /\ EventBusInit /\ CaptureInit /\ ListenerInit
    /\ CloseInit /\ DialogInit /\ EmitInit

NextPrompt == PromptBarNext

SpecPrompt == InitPrompt /\ [][NextPrompt]_vars

\* Quit next to the hotkey manager's other callers; nothing runs once the
\* process has exited.
InitQuit ==
    /\ WindowManagerParked /\ WebviewInit /\ Parked
    /\ HotkeyManagerInit

NextQuit ==
    \/ QuitNext
    \/ ~process_exited /\ HotkeyNext

SpecQuit == InitQuit /\ [][NextQuit]_vars

\* Every canonical storage string, shown and stored again.
InitFormat ==
    /\ WindowManagerParked /\ WebviewInit /\ HotkeyManagerParked /\ Parked

NextFormat == FormatNext

SpecFormat == InitFormat /\ [][NextFormat]_vars

\* A HotkeyCapture under any sequence of calls and keyboard events.
InitCapture ==
    /\ WindowManagerParked /\ WebviewInit /\ HotkeyManagerParked /\ Parked

NextCapture == CaptureNext

SpecCapture == InitCapture /\ [][NextCapture]_vars

\* An EventBus under any sequence of on / off / emit / clear calls.
InitBus ==
    /\ WindowManagerParked /\ WebviewInit /\ HotkeyManagerParked /\ Parked

NextBus == EventBusNext

SpecBus == InitBus /\ [][NextBus]_vars

\* The EventBus with callbacks that subscribe and unsubscribe while an
\* emit delivers.
NextEmit == EmitNext

SpecEmit == InitBus /\ [][NextEmit]_vars

\* ConfigManager over any file: restarts, set calls and attribute assignments.
InitConfig ==
    /\ WindowManagerParked /\ WebviewInit /\ HotkeyManagerParked
    /\ InputSourceParked /\ PromptBarInit /\ SystrayInit /\ FormatInit
    /\ CaptureInit /\ EventBusInit /\ ConfigInit /\ ListenerInit /\ CloseInit
    /\ DialogInit /\ EmitInit

NextConfig == ConfigNext

SpecConfig == InitConfig /\ [][NextConfig]_vars

\* The pynput listener under any sequence of key presses and releases.
InitListener ==
    /\ WindowManagerParked /\ WebviewInit /\ HotkeyManagerParked /\ Parked

NextListener == ListenerNext

SpecListener == InitListener /\ [][NextListener]_vars

\* The hotkey dialog opened from the settings, after the startup
\* registration of a combination that binds (or of none).
InitDialog ==
    /\ WindowManagerParked /\ WebviewInit /\ Parked
    /\ HOTKEY_COMBINATION \in ValidCombos \cup {""}
    /\ kb_hotkeys = IF HOTKEY_COMBINATION = "" THEN <<>>
                    ELSE <<HOTKEY_COMBINATION>>
    /\ hotkey_hook = HOTKEY_COMBINATION
    /\ toggle_callback = (HOTKEY_COMBINATION # "")
    /\ hk_pc = [t \in HkThreads |-> "idle"]
    /\ hk_hotkey = [t \in HkThreads |->
                      IF t = "setup" THEN HOTKEY_COMBINATION ELSE ""]
    /\ hk_ret = Return("register", HOTKEY_COMBINATION # "",
                       HOTKEY_COMBINATION, 0, "")
    /\ kb_faulty = FALSE

NextDialog == DialogNext

SpecDialog == InitDialog /\ [][NextDialog]_vars

\* ------------------------------------------------------------------ claims

\* C1 (debounce): any two toggles executed by toggle_window carry monotonic
\* timestamps at least MIN_TRIGGER_INTERVAL apart, so fires that all fall
\* within one interval execute at most one toggle.
C1_Debounce ==
    \A i, j \in 1..Len(toggle_log) :
        i < j => toggle_log[j] - toggle_log[i] >= MIN_TRIGGER_INTERVAL

\* Two toggles were executed and a fire between them was rejected as too soon.
C1_Witness ==
    /\ Len(toggle_log) >= 2
    /\ \E t \in HotkeyThreads : outcome[t] = "debounced"

Inside(t) == pc[t] # "idle"

Invoked(t) == toggle_window_acquire(t) \/ toggle_window_dropped(t)

\* C2 (mutual exclusion): at most one toggle_window call is inside the
\* locked region, and a call made while the lock is held returns at once
\* (it is back to idle in the same step, nothing is queued for it) leaving
\* last_trigger_time, window_visible, the lock and the executed toggles as
\* they were.
C2_MutualExclusion ==
    /\ [](Cardinality({t \in HotkeyThreads : Inside(t)}) <= 1)
    /\ [][\A t \in HotkeyThreads :
            (Invoked(t) /\ trigger_lock # 0) =>
                /\ pc'[t] = "idle"
                /\ last_trigger_time' = last_trigger_time
                /\ window_visible' = window_visible
                /\ page_window_visible' = page_window_visible
                /\ toggle_log' = toggle_log
                /\ trigger_lock' = trigger_lock]_vars

\* A call was dropped while another call holds the lock.
C2_Witness ==
    \E t, u \in HotkeyThreads :
        /\ outcome[t] = "dropped"
        /\ pc[t] = "idle"
        /\ trigger_lock = u
        /\ u # t

\* C3 (guaranteed release): the lock is held exactly by the call that is
\* inside toggle_window; a call that has returned (after a debounce
\* rejection, a completed or failed show/hide, an exception) holds nothing,
\* a call that is inside can always take its next step, and only the holder,
\* at its finally clause, frees the lock.
C3_GuaranteedRelease ==
    /\ [](/\ trigger_lock \in {0} \cup HotkeyThreads
          /\ \A t \in HotkeyThreads : Inside(t) <=> trigger_lock = t
          /\ \A t \in HotkeyThreads : Inside(t) => ENABLED ToggleStep(t))
    /\ [][(trigger_lock # 0 /\ trigger_lock' # trigger_lock) =>
            (pc[trigger_lock] = "release" /\ trigger_lock' = 0)]_vars

\* Calls have returned by the debounce path, by the exception path and after
\* a failed show, and the lock is free.
C3_Witness ==
    /\ trigger_lock = 0
    /\ \A t \in HotkeyThreads : pc[t] = "idle"
    /\ \E t, u \in HotkeyThreads :
          /\ outcome[t] \in {"debounced", "error"}
          /\ outcome[u] = "show"
          /\ op_failed[u]

\* C6 (toggle effect), the scenario's show: with a page and both callbacks
\* set, a fire that passes the lock and the debounce check while the window
\* is hidden, and whose show_window met no exception, ends with the window
\* shown and PRE_SHOW then SHOWN delivered, in that order; one that hides
\* ends with the window hidden and HIDDEN delivered.
C6_ToggleScenario ==
    \A t \in HotkeyThreads :
        (pc[t] = "release" /\ page /\ on_show /\ on_hide /\ ~op_failed[t]) =>
            /\ outcome[t] = "show" =>
                  (window_visible /\ events[t] = <<"PRE_SHOW", "SHOWN">>)
            /\ outcome[t] = "hide" =>
                  (~window_visible /\ events[t] = <<"HIDDEN">>)

C8_FlagAgreesAfterFailure ==
    \A t \in HotkeyThreads :
        (pc[t] = "release" /\ op_failed[t]) =>
            window_visible = page_window_visible

\* C9 (idempotent close handler): the close handler is registered at most
\* once, window_initialized records it, and once a show_window call has
\* shown the window the handler is registered exactly once, whatever
\* show/hide calls follow.
C9_SingleCloseHandler ==
    /\ closing_handlers <= 1
    /\ window_initialized => closing_handlers = 1
    /\ wv_shows >= 1 => (closing_handlers = 1 /\ window_initialized)

\* show, hide, show, hide, show: three shows done, one registration.
C9_Witness ==
    /\ wv_shows = 3
    /\ wv_calls = 5
    /\ closing_handlers = 1
    /\ wv_pc[WvCaller] = "idle"

\* C10 (single binding): at most one global hotkey binding exists; register
\* has cleared every binding when it binds; a register that returned True
\* left exactly the configured combination bound and tracked, and a register
\* with an empty combination returned False and left nothing bound.
C10_SingleBinding ==
    /\ Len(kb_hotkeys) <= 1
    /\ \A t \in HkThreads : hk_pc[t] = "r_add" => kb_hotkeys = <<>>
    /\ (hk_ret.op = "register" /\ hk_ret.val) =>
          /\ hk_ret.hotkey # ""
          /\ kb_hotkeys = <<hk_ret.hotkey>>
          /\ hotkey_hook = hk_ret.hotkey
    /\ (hk_ret.op = "register" /\ hk_ret.hotkey = "") =>
          (~hk_ret.val /\ kb_hotkeys = <<>>)

\* A register has replaced an existing binding by the configured one.
C10_Witness ==
    /\ hk_ret.op = "register"
    /\ hk_ret.val
    /\ hk_ret.cleared = 1
    /\ kb_hotkeys = <<"alt+x">>

\* C4 (clipboard restoration): whenever get_selection_text has returned, be
\* it with a selection, with a rejected file path, after all retries or with
\* OS calls that failed inside the retry loop, the OS clipboard holds the
\* content it held when the call was entered.
C4_ClipboardRestored ==
    (gs_pc = "returned" /\ os_failed \subseteq {"clear", "ctrl_c", "read"})
        => os_clipboard = clip_before

\* C5 (priority law, selection): after a refresh whose InputState has a
\* selection, the attachment list holds exactly one attachment sourced from
\* the selection, under the id selection_text, and none sourced from the
\* clipboard, and the selection is the active source.
C5_SelectionPriority ==
    (pb_last.op = "refresh" /\ has_selection(input_state)) =>
        /\ Len(SelectSeq(attachments, LAMBDA a : a.source = "selection")) = 1
        /\ \A i \in 1..Len(attachments) :
               attachments[i].source = "selection"
                   => attachments[i].id = ID_SELECTION_TEXT
        /\ Len(SelectSeq(attachments, LAMBDA a : a.source = "clipboard")) = 0
        /\ selection_active
        /\ ~clipboard_active

\* C11 (no exception reaches the caller): no call of register, unregister
\* or cleanup lets an exception out; a register or unregister in which a
\* keyboard call raised returned False; and after a register that failed
\* this way the manager tracks no binding.
C11_NeverRaises ==
    /\ ~hk_ret.raised
    /\ (hk_ret.op \in {"register", "unregister"} /\ hk_ret.failed # "")
           => ~hk_ret.val
    /\ (hk_ret.op = "register" /\ hk_ret.failed # "") => hotkey_hook = ""

\* C12 (unregister is idempotent): an unregister that finds a binding tracked
\* removes that binding and no other, clears the tracked hook and the
\* callback and returns True; one that finds nothing tracked returns False
\* and changes nothing; after any unregister nothing is tracked, so that a
\* second call in a row is of the second kind.
C12_UnregisterIdempotent ==
    /\ [](hk_ret.op = "unregister" => hotkey_hook = "")
    /\ [][(hk_ret'.op = "unregister" /\ hk_ret' # hk_ret) =>
             IF hotkey_hook # ""
             THEN /\ hk_ret'.val
                  /\ Bound(kb_hotkeys, hotkey_hook)
                  /\ Len(kb_hotkeys') = Len(kb_hotkeys) - 1
                  /\ ~Bound(kb_hotkeys', hotkey_hook)
                  /\ hotkey_hook' = ""
                  /\ ~toggle_callback'
             ELSE /\ ~hk_ret'.val
                  /\ UNCHANGED <<HOTKEY_COMBINATION, kb_hotkeys, hotkey_hook,
                                 toggle_callback, hk_pc, hk_hotkey>>]_vars

\* An unregister has removed the tracked binding, the only one.
C12_Witness ==
    /\ hk_ret.op = "unregister"
    /\ hk_ret.val
    /\ hk_ret.cleared = 1
    /\ kb_hotkeys = <<>>
    /\ hotkey_hook = ""

\* C13 (quit ordering): the process exits only after the quit handler has
\* called the hotkey manager's cleanup, and the handler's first step is that
\* call, which leaves no binding and nothing tracked unless unhook_all
\* raised.
C13_QuitOrdering ==
    /\ [](quit_pc \in {"hide", "stop", "exit", "exited", "aborted"}
            => quit_cleaned # "no")
    /\ [][(quit_pc = "cleanup" /\ quit_pc' # "cleanup") =>
             /\ quit_cleaned' \in {"done", "failed"}
             /\ quit_cleaned' = "done" =>
                    (kb_hotkeys' = <<>> /\ hotkey_hook' = "")]_vars

\* The process has exited after a cleanup that removed the binding.
C13_Witness ==
    /\ process_exited
    /\ quit_cleaned = "done"
    /\ quit_cleared = 1

\* C14 (selection result): on Windows, when no attempt read a text that is
\* non-empty once stripped, get_selection_text made max_retries attempts and
\* returns None; otherwise the first such attempt is the last one made, and
\* the call returns None when the stripped text is the path of an existing
\* file and the stripped text otherwise.
C14_SelectionResult ==
    (gs_pc = "returned" /\ platform_system = "Windows") =>
        LET n == Len(gs_rounds)
            hits == {i \in 1..n : /\ Truthy(gs_rounds[i].read)
                                  /\ Strip(gs_rounds[i].read.text) # NoText}
        IN  IF hits = {}
            THEN selected_text = None /\ n = max_retries
            ELSE /\ hits = {n}
                 /\ selected_text =
                        IF Strip(gs_rounds[n].read.text) \in ExistingFiles
                        THEN None
                        ELSE Str(Strip(gs_rounds[n].read.text))

\* The second attempt read the path of an existing file: None is returned.
C14_Witness ==
    /\ gs_pc = "returned"
    /\ Len(gs_rounds) = 2
    /\ gs_rounds[2].read = Str(<<"p">>)
    /\ selected_text = None

\* C15 (detect_sources ordering): detect_sources reads the clipboard after
\* get_selection_text has returned, and the clipboard_text of the InputState
\* it returns is the user's clipboard text from before the call, stripped,
\* None when empty, whatever the selection outcome (the backup, the
\* restoration and this read themselves not failing).
C15_ClipboardTextReported ==
    /\ gs_pc \in {"ds_image", "detected"} => last_state.selection_text \in
           {None, selected_text}
    /\ (gs_pc = "detected"
          /\ os_failed \cap {"backup", "restore", "get_text"} = {}) =>
            /\ last_state.clipboard_text = StrippedOrNone(Str(clip_before.text))
            /\ last_state.selection_text = selected_text

\* A selection was captured and the user's own clipboard text is reported.
C15_Witness ==
    /\ gs_pc = "detected"
    /\ os_failed = {}
    /\ clip_before = Copy(<<"b">>)
    /\ last_state.selection_text = Str(<<"a">>)
    /\ last_state.clipboard_text = Str(<<"b">>)

OfSource(atts, src) == SelectSeq(atts, LAMBDA a : a.source = src)
OfId(atts, id) == SelectSeq(atts, LAMBDA a : a.id = id)

\* C17 (priority law, clipboard): after a refresh whose InputState has no
\* selection but clipboard content, the clipboard is the active source, no
\* attachment sourced from the selection is left, and the list holds one
\* clipboard_text attachment exactly when there is clipboard text and one
\* clipboard_image attachment exactly when there is a clipboard image.
C17_ClipboardPriority ==
    (pb_last.op = "refresh" /\ ~has_selection(input_state)
       /\ has_clipboard_content(input_state)) =>
        /\ clipboard_active
        /\ ~selection_active
        /\ OfSource(attachments, "selection") = <<>>
        /\ Len(OfId(attachments, ID_CLIPBOARD_TEXT)) =
               (IF input_state.clipboard_text # "" THEN 1 ELSE 0)
        /\ Len(OfId(attachments, ID_CLIPBOARD_IMAGE)) =
               (IF input_state.clipboard_image THEN 1 ELSE 0)

\* C18 (removal and the indicators): a removal of the selection attachment
\* deactivates the selection indicator; a removal of a clipboard attachment
\* deactivates the clipboard indicator when no clipboard attachment is left
\* and leaves it as it was otherwise; the other indicator, and both
\* indicators when a file is removed, stay as they were; the attachment
\* removed is gone and the others stay.
C18_RemovalDeactivates ==
    [][(pb_last'.op = "remove" /\ pb_ops' = pb_ops + 1) =>
         LET src == OfId(attachments, pb_last'.arg)[1].source
         IN  /\ OfId(attachments', pb_last'.arg) = <<>>
             /\ Len(attachments') = Len(attachments) - 1
             /\ src = "selection" =>
                    /\ ~selection_active'
                    /\ OfSource(attachments', "selection") = <<>>
                    /\ clipboard_active' = clipboard_active
             /\ src = "clipboard" =>
                    /\ selection_active' = selection_active
                    /\ clipboard_active' =
                           IF OfSource(attachments', "clipboard") = <<>>
                           THEN FALSE
                           ELSE clipboard_active
             /\ src = "" =>
                    /\ selection_active' = selection_active
                    /\ clipboard_active' = clipboard_active]_vars

\* One of the two clipboard attachments was removed: the clipboard is still
\* the active source.
C18_Witness ==
    /\ pb_last = [op |-> "remove", arg |-> ID_CLIPBOARD_TEXT]
    /\ clipboard_active
    /\ Len(OfId(attachments, ID_CLIPBOARD_IMAGE)) = 1

\* C19 (reserved ids): the list holds at most one attachment of each of the
\* ids selection_text, clipboard_text and clipboard_image, and a refresh
\* that follows a refresh with the same InputState leaves the list as it
\* was.
C19_ReservedIdsUnique ==
    /\ [](\A id \in {ID_SELECTION_TEXT, ID_CLIPBOARD_TEXT, ID_CLIPBOARD_IMAGE} :
             Len(OfId(attachments, id)) <= 1)
    /\ [][(pb_last.op = "refresh" /\ pb_last'.op = "refresh"
            /\ pb_ops' = pb_ops + 1 /\ input_state' = input_state)
              => attachments' = attachments]_vars

\* A refresh with a selection was repeated, next to a file.
C19_Witness ==
    /\ pb_last = [op |-> "refresh", arg |-> "repeat"]
    /\ Len(OfId(attachments, ID_SELECTION_TEXT)) = 1
    /\ Len(OfSource(attachments, "")) = 1

\* C20 (canonical round trip): a canonical storage string that has been
\* formatted for display and then for storage is the string it was.
C20_RoundTrip ==
    (fmt_pc = "stored" /\ fmt_hotkey \in CanonicalHotkeys)
        => fmt_storage = fmt_hotkey

\* C21: a capture session never yields a modifiers-only combination as its
\* final result: the string stop_capture returns, and the hotkey the
\* dialog's Save hands to its caller, is empty (None) or holds exactly one
\* main key that is not a modifier.
MainKeyCount(text) ==
    LET parts == Split(text, <<"+">>)
    IN  Cardinality({i \in 1..Len(parts) :
                        parts[i] \notin {<<"c", "t", "r", "l">>, <<"a", "l", "t">>, <<"s", "h", "i", "f", "t">>, <<"w", "i", "n">>}})

C21_NoModifiersOnly ==
    /\ (cap_last.op \in {"stop", "save"} /\ cap_ret.text # <<>>)
          => MainKeyCount(cap_ret.text) = 1
    /\ (dlg_result.action = "save" /\ Truthy(dlg_result.hotkey))
          => MainKeyCount(dlg_result.hotkey.text) = 1

\* C22: the capture hook is installed exactly while a session is capturing
\* and there is never more than one, also when start_capture is called
\* during an open session; start_capture begins with empty key, modifier
\* and main-key state; stop_capture returns a string; a key event that
\* arrives while not capturing changes no state.
C22_Hooked ==
    /\ (cap_hook # 0) <=> is_capturing
    /\ kb_hooks = (IF is_capturing THEN {cap_hook} ELSE {})
    /\ cap_last.op = "start"
          => current_keys = {} /\ modifiers = {} /\ main_key = None
    /\ cap_last.op = "stop" => cap_ret.some /\ ~is_capturing

C22_IgnoredEvent ==
    (cap_last'.op = "event" /\ ~is_capturing)
        => UNCHANGED <<kb_hooks, cap_hook, current_keys, modifiers, main_key,
                       cap_on_update, is_capturing, display_text,
                       captured_hotkey>>

C23_Delivered ==
    (bus_last.op = "emit")
        => \A i \in 1..Len(ListenersOf(listeners, bus_last.event)) :
              Subscribed(bus_last.invoked,
                         ListenersOf(listeners, bus_last.event)[i])

C23_EmitKeepsListeners == (bus_last'.op = "emit") => UNCHANGED listeners

C23_ExceptionIsolation == []C23_Delivered /\ [][C23_EmitKeepsListeners]_vars

\* The first of three subscribed callbacks raised; all three were invoked.
C23_Witness ==
    /\ bus_last.op = "emit"
    /\ Len(ListenersOf(listeners, bus_last.event)) = 3
    /\ ListenersOf(listeners, bus_last.event)[1] \in bus_last.failing
    /\ Len(bus_last.invoked) = 3

\* C24: delivery matches the subscriptions: emit(e) invokes exactly the
\* callbacks subscribed to e, each once and in subscription order; a
\* callback is never listed twice for an event; off of a callback that is
\* not subscribed changes no list; clear(e) empties only e's list and
\* clear() empties all.
NoDuplicates(cbs) ==
    \A i, j \in 1..Len(cbs) : cbs[i] = cbs[j] => i = j

C24_Matches ==
    /\ \A e \in DOMAIN listeners : NoDuplicates(listeners[e])
    /\ bus_last.op = "emit"
          => bus_last.invoked = ListenersOf(listeners, bus_last.event)
    /\ (bus_last.op = "clear" /\ bus_last.event = "")
          => \A e \in EventNames : ListenersOf(listeners, e) = <<>>

C24_OffAndClear ==
    /\ (bus_last'.op = "off"
           /\ ~Subscribed(ListenersOf(listeners, bus_last'.event),
                          bus_last'.callback))
          => \A e \in EventNames :
                ListenersOf(listeners', e) = ListenersOf(listeners, e)
    /\ (bus_last'.op = "off"
           /\ Subscribed(ListenersOf(listeners, bus_last'.event),
                         bus_last'.callback))
          => ~Subscribed(ListenersOf(listeners', bus_last'.event),
                         bus_last'.callback)
    /\ (bus_last'.op = "clear" /\ bus_last'.event # "")
          => \A e \in EventNames :
                ListenersOf(listeners', e) =
                    (IF e = bus_last'.event THEN <<>>
                     ELSE ListenersOf(listeners, e))

C24_DeliveryMatchesSubscriptions == []C24_Matches /\ [][C24_OffAndClear]_vars

\* A callback subscribed to both events, a second one to one of them, and
\* an emit that reached the two in order.
C24_Witness ==
    /\ bus_last.op = "emit"
    /\ bus_last.event = "window_shown"
    /\ bus_last.invoked = <<"cb2", "cb1">>
    /\ ListenersOf(listeners, "language_changed") = <<"cb1", "cb3">>

\* C25: a change triggers a save: set(key, value), and an assignment to the
\* attribute of a known key, updates the value in memory and writes the
\* whole configuration to the file, so that a ConfigManager constructed
\* afterwards on the same file reads back the last value set for each key.
C25_ChangeTriggersSave ==
    /\ cfg_alive => \A k \in DOMAIN cfg_written :
                      k \in DOMAIN config /\ config[k] = cfg_written[k]
    /\ cfg_last.op \in {"set", "setattr"} /\ cfg_last.key \in DOMAIN config
          => /\ config_file.exists
             /\ config_file.data = DumpObject(config)

\* A restart after two keys were set, one of them through its attribute.
C25_Witness ==
    /\ cfg_last.op = "new"
    /\ cfg_last.found.exists
    /\ DOMAIN cfg_written = {"dark_mode", "language"}
    /\ config["dark_mode"] = PyBool("True")
    /\ config["language"] = PyStr("en")

\* C26: load merges: a key the file does not hold keeps its built-in
\* default, a key of the file that the defaults do not know is kept in
\* memory, and the next save writes it back unchanged.
C26_LoadMerges ==
    (cfg_last'.op = "new" /\ config_file.exists)
        => /\ \A k \in DOMAIN DEFAULT_CONFIG \ DOMAIN config_file.data :
                 k \in DOMAIN config' /\ config'[k] = DEFAULT_CONFIG[k]
           /\ \A k \in DOMAIN config_file.data \ DOMAIN DEFAULT_CONFIG :
                 k \in DOMAIN config' /\ json_dump(config'[k]) = config_file.data[k]

C26_SaveKeepsUnknown ==
    (cfg_last'.op \in {"set", "setattr"} /\ config_file' # config_file)
        => \A k \in DOMAIN cfg_last'.found.data \ DOMAIN DEFAULT_CONFIG :
              k # cfg_last'.key
                 => /\ k \in DOMAIN config_file'.data
                    /\ config_file'.data[k] = cfg_last'.found.data[k]

C26_MergeOnLoad == [][C26_LoadMerges /\ C26_SaveKeepsUnknown]_vars

\* A file with an unknown key and without the language key was loaded, and
\* a later save changed another key.
C26_Witness ==
    /\ cfg_last.op = "set"
    /\ cfg_last.key = "dark_mode"
    /\ "future_key" \in DOMAIN config_file.data
    /\ "language" \in DOMAIN config_file.data
    /\ config["language"] = DEFAULT_CONFIG["language"]
    /\ "future_key" \notin DOMAIN cfg_written
    /\ "language" \notin DOMAIN cfg_written

\* C27: the trigger fires at most once per press cycle: a key-down fires
\* only when the flag is clear, so the repeated key-downs of a held
\* Ctrl+Space do not fire again; the flag is cleared only by the release of
\* Space or of a Ctrl key, and once it is cleared the next press of the
\* combination fires again.
C27_Cycle ==
    /\ lsn_cycle_fires <= 1
    /\ lsn_cycle_fires = 1 <=> trigger_fired_for_current_press
    /\ (lsn_last.type = "release" /\ lsn_last.key \in ResetKeys)
          => ~trigger_fired_for_current_press

C27_Steps ==
    /\ (lsn_last'.type = "press" /\ lsn_last'.fired)
          => ~trigger_fired_for_current_press
    /\ (trigger_fired_for_current_press /\ ~trigger_fired_for_current_press')
          => lsn_last'.type = "release" /\ lsn_last'.key \in ResetKeys
    /\ (lsn_last'.type = "press" /\ ~trigger_fired_for_current_press
            /\ lsn_last'.key = "space"
            /\ current_pressed_keys \cap {"ctrl_l", "ctrl_r"} # {})
          => lsn_last'.fired

C27_OncePerPressCycle == []C27_Cycle /\ [][C27_Steps]_vars

\* Space repeats while Ctrl+Space is held and the trigger has fired: the
\* repeated key-down did not fire.
C27_Witness ==
    /\ lsn_last = ListenerEvent("press", "space", FALSE, FALSE)
    /\ trigger_fired_for_current_press
    /\ {"space", "ctrl_l"} \subseteq current_pressed_keys
    /\ lsn_cycle_fires = 1

\* C28: the close button hides without blocking: on_closing returns False,
\* so the window is kept, and returns while the hide is still to be done by
\* its worker thread; after a close request the window is eventually hidden
\* with window_visible false, unless window.hide() raised in the worker.
C28_Returned ==
    /\ close_ret \in {"", "False"}
    /\ closing_handlers > 0 => webview_windows

C28_NotBlocked ==
    (wv_pc[WvCloser] = "idle" /\ wv_pc'[WvCloser] # "idle")
        => /\ close_ret' = "False"
           /\ wv_shown' /\ wv_window_visible' = wv_window_visible
           /\ wv_pc'[WvCloser] = "hide_get_window"
           /\ wv_pc'[WvCaller] = wv_pc[WvCaller]

C28_EventuallyHidden ==
    (wv_pc[WvCloser] = "hide_get_window")
        ~> ((~wv_shown /\ ~wv_window_visible) \/ hide_raised)

C28_CloseHidesWithoutBlocking ==
    []C28_Returned /\ [][C28_NotBlocked]_vars /\ C28_EventuallyHidden

\* The handler has returned False and its worker has hidden the window.
C28_Witness ==
    /\ close_ret = "False"
    /\ wv_pc[WvCloser] = "idle"
    /\ ~hide_raised
    /\ ~wv_shown /\ ~wv_window_visible
    /\ webview_windows

\* C29: register replaces the prior binding atomically: when two
\* registrations overlap, once both have completed the keyboard library
\* holds one binding and no more (none when the registration failed or
\* the hotkey is disabled), so one key press calls the toggle callback once.
C29_AtomicReplace == HkSequential => Len(kb_hotkeys) <= 1

\* ---------------------------------------------------------------- C30
\* The binding that is in force: the combinations the keyboard library
\* holds equal the configured one (none when the hotkey is disabled).
C30_BindingMatchesConfig ==
    kb_hotkeys = IF HOTKEY_COMBINATION = "" THEN <<>>
                 ELSE <<HOTKEY_COMBINATION>>

\* The dialog has been closed by Save or Cancel, every scheduled
\* registration has run, and add_hotkey did not fail.
C30_Settled ==
    /\ dlg_pc = "closed"
    /\ dlg_action \in {"save", "cancel"}
    /\ setup_pending = 0
    /\ HkSequential
    /\ hk_ret.failed = ""

\* Opening the dialog leaves no combination bound.
C30_OpenUnregisters ==
    (dlg_pc = "closed" /\ dlg_pc' = "open") => kb_hotkeys' = <<>>

\* C30: the global hotkey is unregistered when the capture dialog opens,
\* and once the dialog has closed (Save, Cancel, or a deleted hotkey)
\* the binding in force matches the configuration.
C30_SuspendResume ==
    /\ [](C30_Settled => C30_BindingMatchesConfig)
    /\ [][C30_OpenUnregisters]_vars

\* ---------------------------------------------------------------- C31
\* At most max_retries rounds of clear plus Ctrl+C.
C31_AtMostMaxRetries == Len(gs_rounds) <= max_retries

\* No round follows one whose read was non-empty (after strip()).
C31_StopsAtFirstHit ==
    \A i \in 1..Len(gs_rounds) :
        IsHit(gs_rounds[i].read) =>
            i = Len(gs_rounds) /\ gs_pc \notin {"clear", "ctrl_c", "read"}

\* retry_delay is slept after a round exactly when another round follows.
C31_WaitsBetweenRounds ==
    \A i \in 1..Len(gs_rounds) :
        gs_rounds[i].waited <=>
            (i < Len(gs_rounds) \/ (i = Len(gs_rounds) /\ gs_pc = "clear"))

C31_Terminates == (gs_pc = "backup") ~> (gs_pc = "returned")

\* C31 (bounded retry): get_selection_text performs at most max_retries
\* rounds of clear-clipboard plus simulated Ctrl+C, stops at the first
\* round whose read is non-empty (after strip()), sleeps retry_delay only
\* between rounds, never after the last one, and always returns.
C31_BoundedRetry ==
    /\ [](C31_AtMostMaxRetries /\ C31_StopsAtFirstHit /\ C31_WaitsBetweenRounds)
    /\ C31_Terminates

\* A call returned after max_retries empty rounds, the last one not
\* followed by a sleep.
C31_Witness ==
    /\ gs_pc = "returned"
    /\ Len(gs_rounds) = max_retries
    /\ \A i \in 1..max_retries : ~IsHit(gs_rounds[i].read)
    /\ gs_rounds[1].waited /\ gs_rounds[2].waited
    /\ ~gs_rounds[max_retries].waited

\* ---------------------------------------------------------------- C32
\* The step in which thread t's fire is rejected: by the debounce check,
\* or dropped because the lock is held.
C32_Rejected(t) ==
    \/ pc[t] = "check" /\ outcome'[t] = "debounced"
    \/ pc[t] = "idle" /\ pc'[t] = "idle" /\ fires' = fires + 1
          /\ trigger_lock # 0 /\ outcome'[t] = "dropped"

C32_RejectionChangesNothing ==
    \A t \in HotkeyThreads :
        C32_Rejected(t) =>
            /\ last_trigger_time' = last_trigger_time
            /\ window_visible' = window_visible

\* last_trigger_time is the time of the last accepted fire.
C32_LastIsLastAccepted ==
    toggle_log # <<>> => last_trigger_time = toggle_log[Len(toggle_log)]

\* A fire that has taken the lock and reaches the debounce check at least
\* MIN_TRIGGER_INTERVAL after the last accepted fire is accepted (the try
\* block not raising).
C32_LateFireAccepted ==
    \A t \in HotkeyThreads :
        (/\ pc[t] = "check" /\ pc'[t] # "check"
         /\ toggle_log # <<>>
         /\ clock - toggle_log[Len(toggle_log)] >= MIN_TRIGGER_INTERVAL
         /\ outcome'[t] # "error") =>
            /\ outcome'[t] \in {"show", "hide"}
            /\ last_trigger_time' = clock

\* C32: a fire rejected by the debounce check, or dropped by the lock,
\* leaves last_trigger_time and window_visible unchanged, so rejected
\* fires never extend the debounce window: a fire arriving at least
\* MIN_TRIGGER_INTERVAL after the last accepted fire, the lock being free,
\* is accepted.
C32_RejectedFiresChangeNothing ==
    /\ []C32_LastIsLastAccepted
    /\ [][C32_RejectionChangesNothing /\ C32_LateFireAccepted]_vars

\* A fire was rejected as too soon after an accepted one, and a later
\* fire, MIN_TRIGGER_INTERVAL after the accepted one, was accepted.
C32_Witness ==
    /\ Len(toggle_log) = 2
    /\ toggle_log[2] - toggle_log[1] = MIN_TRIGGER_INTERVAL
    /\ \E t \in HotkeyThreads : outcome[t] = "debounced"
    /\ last_trigger_time = toggle_log[2]

\* ---------------------------------------------------------------- C34
\* C34: the first hotkey fire after the construction of the WindowManager
\* is never rejected by the debounce check, whatever the value of the
\* monotonic clock (last_trigger_time starts at 0.0).
C34_FirstFireNotDebounced ==
    \A t \in HotkeyThreads : ~(fires = 1 /\ outcome[t] = "debounced")

\* ---------------------------------------------------------------- C33
\* The attachments of a source in a list.
C33_OfSource(atts, src) == SelectSeq(atts, LAMBDA a : a.source = src)

C33_AtMostOneActive == ~(selection_active /\ clipboard_active)

\* A step that activates a source leaves the other one inactive and
\* without attachments.
C33_ActivationExcludes ==
    /\ (~selection_active /\ selection_active') =>
           /\ ~clipboard_active'
           /\ C33_OfSource(attachments', "clipboard") = <<>>
    /\ (~clipboard_active /\ clipboard_active') =>
           /\ ~selection_active'
           /\ C33_OfSource(attachments', "selection") = <<>>

\* C33 (source mutual exclusivity): at most one of the selection and
\* clipboard indicators is active at any time, after any refreshes, clicks
\* and removals; activating one source deactivates the other and removes
\* the other source's attachments.
C33_SourceMutualExclusivity ==
    /\ []C33_AtMostOneActive
    /\ [][C33_ActivationExcludes]_vars

\* ---------------------------------------------------------------- C35
\* One toggle_window on a hotkey thread and one hide_window on the UI
\* thread have run to their end, nothing else was called, and neither met
\* an exception.
C35_BothReturned ==
    /\ fires = 2
    /\ outcome[UiThread] = "hide"
    /\ \E t \in HotkeyThreads : outcome[t] \in {"show", "hide"}
    /\ \A t \in WinThreads : pc[t] = "idle" /\ ~op_failed[t]

\* C35: when hide_window runs on the UI thread (close event, Hide button)
\* concurrently with toggle_window on the hotkey thread, then under every
\* interleaving the final window_visible equals the final
\* page.window.visible.
C35_FlagAgreesAfterRace ==
    C35_BothReturned => window_visible = page_window_visible

\* ---------------------------------------------------------------- C36
\* Neither toggle_window nor hide_window has been called yet: whatever
\* changed the visibility came from outside the WindowManager.
C36_NoManagerCall == \A t \in WinThreads : outcome[t] = "none"

C36_FlagIsVisibility ==
    C36_NoManagerCall => window_visible = page_window_visible

\* A fire that passes the lock and the debounce check while the window is
\* visible hides it.
C36_VisibleWindowIsHidden ==
    \A t \in HotkeyThreads :
        (/\ pc[t] = "check" /\ outcome'[t] \in {"show", "hide"}
         /\ \A u \in WinThreads \ {t} : outcome[u] = "none"
         /\ page_window_visible) => outcome'[t] = "hide"

\* C36: window_visible equals the actual window visibility after any
\* sequence of visibility-changing operations, the systray Settings click
\* and show_about included; hence a qualifying hotkey fire while the window
\* is visible hides it.
C36_FlagTracksVisibility ==
    /\ []C36_FlagIsVisibility
    /\ [][C36_VisibleWindowIsHidden]_vars

\* ---------------------------------------------------------------- C37
\* The hook of an open capture session is installed.
C37_HookInstalled == is_capturing => cap_hook \in kb_hooks

\* No combination is bound while the capture dialog is open.
C37_NotBoundDuringSession == dlg_pc = "open" => kb_hotkeys = <<>>

\* C37: while a hotkey capture session is open its keyboard hook stays
\* installed until stop_capture, and the global toggle hotkey is not bound
\* during the session, also when a registration scheduled by an earlier
\* Cancel fires while a new capture dialog is open.
C37_CaptureSessionIsolated ==
    C37_HookInstalled /\ C37_NotBoundDuringSession

\* ---------------------------------------------------------------- C38
\* C38: the text get_selection_text returns was written to the clipboard
\* after that attempt's clear, by the simulated copy of a selection: the
\* clipboard content the user had before is never returned as the
\* selection, also when clear_clipboard fails or the copy copies nothing.
C38_ReturnedTextWasCopied ==
    (gs_pc = "returned" /\ selected_text.some) =>
        /\ gs_rounds[Len(gs_rounds)].sent
        /\ fg_selection # NoText

\* ---------------------------------------------------------------- C39
\* An active indicator has an attachment of its source in the list.
C39_ActiveHasAttachment ==
    /\ selection_active => C33_OfSource(attachments, "selection") # <<>>
    /\ clipboard_active => C33_OfSource(attachments, "clipboard") # <<>>

\* An attachment of a source is in the list only while its indicator is
\* active.
C39_AttachmentHasActive ==
    /\ C33_OfSource(attachments, "selection") # <<>> => selection_active
    /\ C33_OfSource(attachments, "clipboard") # <<>> => clipboard_active

\* C39: after every PromptBar operation (refresh, click on an indicator,
\* removal, file add, submit) a source indicator is active if and only if
\* the attachment list holds at least one attachment of that source.
C39_ActiveIffAttached ==
    C39_ActiveHasAttachment /\ C39_AttachmentHasActive

\* ---------------------------------------------------------------- C40
\* How often a callback occurs in a sequence of invocations.
C40_Count(cbs, cb) == Cardinality({i \in 1..Len(cbs) : cbs[i] = cb})

\* The step in which an emit returns.
C40_Returns == emit_event # "" /\ emit_event' = ""

\* C40: a listener that subscribes or unsubscribes, itself or another
\* callback, on the event being delivered does not cause a listener that
\* was subscribed when the emit started and stayed subscribed to be
\* skipped or invoked twice.
C40_ReentrantDelivery ==
    [][C40_Returns =>
          \A cb \in Callbacks :
              (Subscribed(emit_start, cb) /\ cb \notin emit_removed) =>
                  C40_Count(emit_invoked, cb) = 1]_vars

====
